---- MODULE Spec2Model ----
(***************************************************************************)
(* Model of the JARVIS desktop assistant: the command dispatcher           *)
(* (command_processor.py) and the conversational adapter                   *)
(* (ai_integration.py).                                                    *)
(*                                                                         *)
(* Text is a sequence of symbols.  Each symbol stands for a fixed run of   *)
(* characters ("open", " ", "re", ...); the symbols are chosen so that no  *)
(* literal of a pattern straddles a symbol boundary, so that re.search on  *)
(* the characters and Search on the symbols agree.                         *)
(***************************************************************************)
EXTENDS Integers, Sequences, FiniteSets, TLC

VARIABLES command_patterns, conversation_history, jarvis_personality,
          claude_client, openai_client, now, nops, last, inflight, tts, gui, jarvis

vars == <<command_patterns, conversation_history, jarvis_personality,
          claude_client, openai_client, now, nops, last, inflight, tts, gui, jarvis>>

----------------------------------------------------------------------------
(* Characters and str methods                                              *)

Whitespace == {" "}

Digits == {"5"}

\* str.lower() on one symbol: the upper-case symbols and their images.
LowerSym(a) ==
    CASE a = "OPEN" -> "open"
      [] a = "TELL" -> "tell"
      [] a = "X" -> "x"
      [] a = "JARVIS" -> "jarvis"
      [] OTHER -> a

\* str.lower()
Lower(t) == [i \in 1..Len(t) |-> LowerSym(t[i])]

\* str.strip(): drop the leading and the trailing whitespace.
Strip(t) ==
    LET ink == {i \in 1..Len(t) : t[i] \notin Whitespace}
    IN  IF ink = {} THEN <<>>
        ELSE LET lo == CHOOSE i \in ink : \A j \in ink : i <= j
                 hi == CHOOSE i \in ink : \A j \in ink : i >= j
             IN  SubSeq(t, lo, hi)

----------------------------------------------------------------------------
(* Regular expressions: a pattern is a sequence of elements, each a        *)
(* literal symbol or one of the elements below.                            *)

WS1 == "\\s+"
WS0 == "\\s*"
CapAny1 == "(.+)"
CapAny0 == "(.*)"
CapDigits == "(\\d+)"

Captures == {CapAny1, CapAny0, CapDigits}
Quantified == {WS1, WS0} \cup Captures

\* match.groups() is non-empty exactly when the pattern has a group.
HasGroup(p) == \E i \in 1..Len(p) : p[i] \in Captures

\* The longest run of symbols of class cls starting at position j of t.
RECURSIVE Run(_, _, _)
Run(cls, t, j) ==
    IF j > Len(t) \/ t[j] \notin cls THEN 0 ELSE 1 + Run(cls, t, j + 1)

NoMatch == [ok |-> FALSE, cap |-> <<>>]

\* The backtracking matcher: element i of p against t from position j.
\* A quantified element is greedy: it takes the longest run for which the
\* rest of the pattern still matches.
RECURSIVE MatchAt(_, _, _, _)
MatchAt(p, i, t, j) ==
    IF i > Len(p) THEN [ok |-> TRUE, cap |-> <<>>]
    ELSE LET e == p[i] IN
      IF e \in Quantified
      THEN LET lo == IF e \in {WS0, CapAny0} THEN 0 ELSE 1
               hi == CASE e \in {WS1, WS0} -> Run(Whitespace, t, j)
                       [] e = CapDigits -> Run(Digits, t, j)
                       [] OTHER -> Len(t) - j + 1
               ks == {k \in lo..hi : MatchAt(p, i + 1, t, j + k).ok}
           IN  IF ks = {} THEN NoMatch
               ELSE LET k == CHOOSE x \in ks : \A y \in ks : x >= y
                        r == MatchAt(p, i + 1, t, j + k)
                    IN  IF e \in Captures
                        THEN [ok |-> TRUE, cap |-> SubSeq(t, j, j + k - 1)]
                        ELSE r
      ELSE IF j <= Len(t) /\ t[j] = e
           THEN MatchAt(p, i + 1, t, j + 1)
           ELSE NoMatch

\* re.search(pattern, text): the match at the leftmost position that has one.
re_search(p, t) ==
    LET starts == {s \in 1..(Len(t) + 1) : MatchAt(p, 1, t, s).ok}
    IN  IF starts = {} THEN NoMatch
        ELSE MatchAt(p, 1, t, CHOOSE s \in starts : \A u \in starts : s <= u)

----------------------------------------------------------------------------
(* ai_integration.py: AIAssistant                                          *)

max_history_length == 10

\* The personality text set by __init__.
DefaultPersonality == "You are JARVIS, an advanced AI assistant like from Iron Man."

\* set_personality_mode: the modes dictionary (mode name -> profile text).
modes ==
    [professional |-> "You are JARVIS, a professional AI assistant.",
     friendly |-> "You are JARVIS, a friendly AI assistant.",
     technical |-> "You are JARVIS, a technical AI assistant.",
     iron_man |-> "You are JARVIS from Iron Man."]

\* The state of an AIAssistant that its methods read and write.
AIState == [hist |-> conversation_history, pers |-> jarvis_personality,
            now |-> now, claude |-> claude_client, openai |-> openai_client]

\* What a method hands back: its return value or the fault it lets escape,
\* the state it leaves, and what it did on the way (the backend it called
\* and the prompt it sent).
AIResult(st, response) ==
    [raised |-> FALSE, response |-> response, hist |-> st.hist,
     pers |-> st.pers, now |-> st.now, backend |-> "none", prompts |-> <<>>]

\* conversation_history[-n:]
LastN(h, n) == IF Len(h) <= n THEN h ELSE SubSeq(h, Len(h) - n + 1, Len(h))

\* add_to_history keeping the first turns instead of the last ones.
add_to_history_keeps_oldest(h, clock, user_input, assistant_response) ==
    LET appended == Append(h, [user |-> user_input,
                               assistant |-> assistant_response,
                               timestamp |-> clock])
    IN  IF Len(appended) > max_history_length
        THEN SubSeq(appended, 1, max_history_length)
        ELSE appended

\* add_to_history: append the turn, stamped with the current time, and keep
\* the last max_history_length turns.  Time moves on with every call.
add_to_history(h, clock, user_input, assistant_response) ==
    LET appended == Append(h, [user |-> user_input,
                               assistant |-> assistant_response,
                               timestamp |-> clock])
    IN  IF Len(appended) > max_history_length
        THEN LastN(appended, max_history_length)
        ELSE appended

\* The turns of the prompt: user and assistant text of the last 3 turns.
PromptTurns(h) ==
    LET l == LastN(h, 3)
    IN  [i \in 1..Len(l) |-> [user |-> l[i].user, assistant |-> l[i].assistant]]

\* ask_claude builds one string: personality and question; with a context,
\* personality, context and question; with a history, personality, history
\* and question (the last assignment made is the one sent).
ClaudePrompt(st, question, context) ==
    LET base == [pers |-> st.pers, ctx |-> <<>>, turns |-> <<>>, q |-> question]
        withctx == IF context # <<>> THEN [base EXCEPT !.ctx = context] ELSE base
    IN  IF st.hist # <<>>
        THEN [base EXCEPT !.turns = PromptTurns(st.hist)]
        ELSE withctx

\* ask_openai builds a message list: personality, the last 3 turns, the
\* context if there is one, the question.
OpenAIPrompt(st, question, context) ==
    [pers |-> st.pers, ctx |-> context, turns |-> PromptTurns(st.hist),
     q |-> question]

ClaudeUnavailable == <<"Claude AI is not available.">>
OpenAIUnavailable == <<"OpenAI is not available.">>
ClaudeApology == <<"I'm having trouble connecting to my AI systems right now, sir.">>
OpenAIApology == <<"I'm experiencing difficulties with my neural networks, sir.">>
BackendAnswer == <<"<answer>">>

\* AskBackend without the except clause: a backend fault leaves the method.
AskBackend_fault_escapes(st, name, prompt, apology, question, bres) ==
    IF bres = "answer"
    THEN [raised |-> FALSE, response |-> BackendAnswer,
          hist |-> add_to_history(st.hist, st.now, question, BackendAnswer),
          pers |-> st.pers, now |-> st.now + 1,
          backend |-> name, prompts |-> <<prompt>>]
    ELSE [raised |-> TRUE, response |-> <<>>, hist |-> st.hist,
          pers |-> st.pers, now |-> st.now,
          backend |-> name, prompts |-> <<prompt>>]

\* AskBackend adding the turn before the backend is called, so that a fault
\* leaves it in the history.
AskBackend_records_first(st, name, prompt, apology, question, bres) ==
    [raised |-> FALSE,
     response |-> IF bres = "answer" THEN BackendAnswer ELSE apology,
     hist |-> add_to_history(st.hist, st.now, question,
                             IF bres = "answer" THEN BackendAnswer ELSE apology),
     pers |-> st.pers, now |-> st.now + 1,
     backend |-> name, prompts |-> <<prompt>>]

\* The part of ask_claude / ask_openai inside try: call the backend with the
\* prompt; bres is what the backend does ("answer" or "fault").  On an answer
\* the turn is added to the history; a fault is caught and the apology returned.
AskBackend(st, name, prompt, apology, question, bres) ==
    IF bres = "answer"
    THEN [raised |-> FALSE, response |-> BackendAnswer,
          hist |-> add_to_history(st.hist, st.now, question, BackendAnswer),
          pers |-> st.pers, now |-> st.now + 1,
          backend |-> name, prompts |-> <<prompt>>]
    ELSE [raised |-> FALSE, response |-> apology, hist |-> st.hist,
          pers |-> st.pers, now |-> st.now,
          backend |-> name, prompts |-> <<prompt>>]

\* What the remote backend does when it is called.
BackendResults == {"answer", "fault"}

ask_claude(st, question, context, bres) ==
    IF ~st.claude THEN AIResult(st, ClaudeUnavailable)
    ELSE AskBackend(st, "claude", ClaudePrompt(st, question, context),
                    ClaudeApology, question, bres)

ask_openai(st, question, context, bres) ==
    IF ~st.openai THEN AIResult(st, OpenAIUnavailable)
    ELSE AskBackend(st, "openai", OpenAIPrompt(st, question, context),
                    OpenAIApology, question, bres)

\* x in s for strings: s holds x as a contiguous run.
Contains(s, x) ==
    \E i \in 1..(Len(s) - Len(x) + 1) : SubSeq(s, i, i + Len(x) - 1) = x

ContainsAny(s, xs) == \E x \in xs : Contains(s, x)

\* provide_basic_response: keyword containment, first test that holds wins.
provide_basic_response(question) ==
    LET question_lower == Lower(question)
    IN  IF ContainsAny(question_lower, {<<"hello">>, <<"hi">>, <<"hey">>, <<"greetings">>})
        THEN <<"Hello sir. How may I assist you today?">>
        ELSE IF ContainsAny(question_lower, {<<"time">>, <<"date">>, <<"day">>})
        THEN <<"The current time is <now>, sir.">>
        ELSE IF Contains(question_lower, <<"weather">>)
        THEN <<"I would need to access weather services to provide that information, sir.">>
        ELSE IF ContainsAny(question_lower,
                            {<<"how", " ", "are", " ", "you">>,
                             <<"how", " ", "do", " ", "you", " ", "feel">>})
        THEN <<"All systems are operating at optimal capacity, sir.">>
        ELSE <<"I apologize, sir, but I need access to my AI systems to answer that question properly.">>

AskRepeat == <<"I didn't catch that, sir. Could you repeat your question?">>

\* ask_question without the preferred backend: always the fixed order.
ask_question_ignores_preferred(st, question0, context, preferred_ai, bres) ==
    LET question == Strip(question0)
    IN  IF question = <<>> THEN AIResult(st, AskRepeat)
        ELSE IF st.claude THEN ask_claude(st, question, context, bres)
        ELSE IF st.openai THEN ask_openai(st, question, context, bres)
        ELSE [AIResult(st, provide_basic_response(question))
                 EXCEPT !.backend = "local"]

\* ask_question(question, context, preferred_ai)
ask_question(st, question0, context, preferred_ai, bres) ==
    LET question == Strip(question0)
    IN  IF question = <<>> THEN AIResult(st, AskRepeat)
        ELSE IF preferred_ai = "claude" /\ st.claude
        THEN ask_claude(st, question, context, bres)
        ELSE IF preferred_ai = "openai" /\ st.openai
        THEN ask_openai(st, question, context, bres)
        ELSE IF st.claude THEN ask_claude(st, question, context, bres)
        ELSE IF st.openai THEN ask_openai(st, question, context, bres)
        ELSE [AIResult(st, provide_basic_response(question))
                 EXCEPT !.backend = "local"]

\* clear_history leaving the last turn in the history.
clear_history_keeps_last(st) == [AIResult(st, <<>>) EXCEPT !.hist = LastN(st.hist, 1)]

\* clear_history
clear_history(st) == [AIResult(st, <<>>) EXCEPT !.hist = <<>>]

ModeNames == {<<"professional">>, <<"friendly">>, <<"technical">>, <<"iron_man">>}

\* set_personality_mode falling back to the default profile on an unknown mode.
set_personality_mode_resets(st, mode) ==
    IF mode \in ModeNames
    THEN [AIResult(st, <<"Personality mode updated to ">> \o mode \o <<", sir.">>)
             EXCEPT !.pers = modes[mode[1]]]
    ELSE [AIResult(st, <<"Invalid personality mode. Available modes: ",
                         "professional", ", ", "friendly", ", ", "technical",
                         ", ", "iron_man", ".">>)
             EXCEPT !.pers = DefaultPersonality]

\* set_personality_mode(mode)
set_personality_mode(st, mode) ==
    IF mode \in ModeNames
    THEN [AIResult(st, <<"Personality mode updated to ">> \o mode \o <<", sir.">>)
             EXCEPT !.pers = modes[mode[1]]]
    ELSE AIResult(st, <<"Invalid personality mode. Available modes: ",
                        "professional", ", ", "friendly", ", ", "technical",
                        ", ", "iron_man", ".">>)

----------------------------------------------------------------------------
(* command_processor.py: CommandProcessor                                  *)

Rule(p, h) == [pattern |-> p, handler |-> h]

\* __init__: self.command_patterns, a dict from pattern to handler, which
\* keeps insertion order.
DefaultPatterns == <<
    Rule("open\\s+(.+)", "handle_open_application"),
    Rule("launch\\s+(.+)", "handle_open_application"),
    Rule("start\\s+(.+)", "handle_open_application"),
    Rule("run\\s+(.+)", "handle_open_application"),
    Rule("close\\s+(.+)", "handle_close_application"),
    Rule("quit\\s+(.+)", "handle_close_application"),
    Rule("exit\\s+(.+)", "handle_close_application"),
    Rule("open\\s+file\\s+(.+)", "handle_open_file"),
    Rule("open\\s+folder\\s+(.+)", "handle_open_folder"),
    Rule("create\\s+folder\\s+(.+)", "handle_create_folder"),
    Rule("create\\s+a\\s+folder\\s+(.+)", "handle_create_folder"),
    Rule("make\\s+folder\\s+(.+)", "handle_create_folder"),
    Rule("new\\s+folder\\s+(.+)", "handle_create_folder"),
    Rule("delete\\s+file\\s+(.+)", "handle_delete_file"),
    Rule("search\\s+for\\s+(.+)", "handle_search_files"),
    Rule("play\\s+music\\s*(.*)", "handle_play_music"),
    Rule("play\\s+song\\s*(.*)", "handle_play_music"),
    Rule("play\\s+(.+)\\s+on\\s+youtube", "handle_play_youtube"),
    Rule("youtube\\s+(.+)", "handle_search_youtube"),
    Rule("search\\s+youtube\\s+(.+)", "handle_search_youtube"),
    Rule("music\\s*(.*)", "handle_play_music"),
    Rule("open\\s+website\\s+(.+)", "handle_open_website"),
    Rule("go\\s+to\\s+(.+)", "handle_open_website"),
    Rule("browse\\s+(.+)", "handle_open_website"),
    Rule("system\\s+info", "handle_system_info"),
    Rule("system\\s+status", "handle_system_info"),
    Rule("how\\s+is\\s+the\\s+system", "handle_system_info"),
    Rule("set\\s+volume\\s+to\\s+(\\d+)", "handle_set_volume"),
    Rule("volume\\s+(\\d+)", "handle_set_volume"),
    Rule("set\\s+volume\\s+(\\d+)", "handle_set_volume"),
    Rule("increase\\s+volume", "handle_increase_volume"),
    Rule("decrease\\s+volume", "handle_decrease_volume"),
    Rule("mute", "handle_mute"),
    Rule("take\\s+screenshot", "handle_screenshot"),
    Rule("screenshot", "handle_screenshot"),
    Rule("capture\\s+screen", "handle_screenshot"),
    Rule("shutdown\\s+system", "handle_shutdown"),
    Rule("restart\\s+system", "handle_restart"),
    Rule("lock\\s+screen", "handle_lock_screen"),
    Rule("what\\s+time\\s+is\\s+it", "handle_time"),
    Rule("current\\s+time", "handle_time"),
    Rule("what\\s+date\\s+is\\s+it", "handle_date"),
    Rule("current\\s+date", "handle_date"),
    Rule("hello\\s*jarvis", "handle_greeting"),
    Rule("hi\\s*jarvis", "handle_greeting"),
    Rule("hey\\s*jarvis", "handle_greeting"),
    Rule("good\\s+morning", "handle_greeting"),
    Rule("good\\s+afternoon", "handle_greeting"),
    Rule("good\\s+evening", "handle_greeting"),
    Rule("clear\\s+history", "handle_clear_history"),
    Rule("set\\s+personality\\s+(.+)", "handle_set_personality"),
    Rule("help", "handle_help"),
    Rule("what\\s+can\\s+you\\s+do", "handle_help"),
    Rule("commands", "handle_help") >>

\* re.compile: the elements of each pattern of this model, literals cut into
\* symbols.
re_compile ==
    ("open\\s+(.+)" :> <<"open", WS1, CapAny1>>) @@
    ("launch\\s+(.+)" :> <<"launch", WS1, CapAny1>>) @@
    ("start\\s+(.+)" :> <<"start", WS1, CapAny1>>) @@
    ("run\\s+(.+)" :> <<"run", WS1, CapAny1>>) @@
    ("close\\s+(.+)" :> <<"close", WS1, CapAny1>>) @@
    ("quit\\s+(.+)" :> <<"quit", WS1, CapAny1>>) @@
    ("exit\\s+(.+)" :> <<"exit", WS1, CapAny1>>) @@
    ("open\\s+file\\s+(.+)" :> <<"open", WS1, "file", WS1, CapAny1>>) @@
    ("open\\s+folder\\s+(.+)" :> <<"open", WS1, "folder", WS1, CapAny1>>) @@
    ("create\\s+folder\\s+(.+)" :> <<"create", WS1, "folder", WS1, CapAny1>>) @@
    ("create\\s+a\\s+folder\\s+(.+)" :> <<"create", WS1, "a", WS1, "folder", WS1, CapAny1>>) @@
    ("make\\s+folder\\s+(.+)" :> <<"make", WS1, "folder", WS1, CapAny1>>) @@
    ("new\\s+folder\\s+(.+)" :> <<"new", WS1, "folder", WS1, CapAny1>>) @@
    ("delete\\s+file\\s+(.+)" :> <<"delete", WS1, "file", WS1, CapAny1>>) @@
    ("search\\s+for\\s+(.+)" :> <<"search", WS1, "for", WS1, CapAny1>>) @@
    ("play\\s+music\\s*(.*)" :> <<"play", WS1, "music", WS0, CapAny0>>) @@
    ("play\\s+song\\s*(.*)" :> <<"play", WS1, "song", WS0, CapAny0>>) @@
    ("play\\s+(.+)\\s+on\\s+youtube" :> <<"play", WS1, CapAny1, WS1, "on", WS1, "youtube">>) @@
    ("youtube\\s+(.+)" :> <<"youtube", WS1, CapAny1>>) @@
    ("search\\s+youtube\\s+(.+)" :> <<"search", WS1, "youtube", WS1, CapAny1>>) @@
    ("music\\s*(.*)" :> <<"music", WS0, CapAny0>>) @@
    ("open\\s+website\\s+(.+)" :> <<"open", WS1, "website", WS1, CapAny1>>) @@
    ("go\\s+to\\s+(.+)" :> <<"go", WS1, "to", WS1, CapAny1>>) @@
    ("browse\\s+(.+)" :> <<"browse", WS1, CapAny1>>) @@
    ("system\\s+info" :> <<"system", WS1, "info">>) @@
    ("system\\s+status" :> <<"system", WS1, "status">>) @@
    ("how\\s+is\\s+the\\s+system" :> <<"how", WS1, "is", WS1, "the", WS1, "system">>) @@
    ("set\\s+volume\\s+to\\s+(\\d+)" :> <<"set", WS1, "volume", WS1, "to", WS1, CapDigits>>) @@
    ("volume\\s+(\\d+)" :> <<"volume", WS1, CapDigits>>) @@
    ("set\\s+volume\\s+(\\d+)" :> <<"set", WS1, "volume", WS1, CapDigits>>) @@
    ("increase\\s+volume" :> <<"increase", WS1, "volume">>) @@
    ("decrease\\s+volume" :> <<"decrease", WS1, "volume">>) @@
    ("mute" :> <<"mute">>) @@
    ("take\\s+screenshot" :> <<"take", WS1, "screen", "shot">>) @@
    ("screenshot" :> <<"screen", "shot">>) @@
    ("capture\\s+screen" :> <<"capture", WS1, "screen">>) @@
    ("shutdown\\s+system" :> <<"shutdown", WS1, "system">>) @@
    ("restart\\s+system" :> <<"re", "start", WS1, "system">>) @@
    ("lock\\s+screen" :> <<"lock", WS1, "screen">>) @@
    ("what\\s+time\\s+is\\s+it" :> <<"what", WS1, "time", WS1, "is", WS1, "it">>) @@
    ("current\\s+time" :> <<"current", WS1, "time">>) @@
    ("what\\s+date\\s+is\\s+it" :> <<"what", WS1, "date", WS1, "is", WS1, "it">>) @@
    ("current\\s+date" :> <<"current", WS1, "date">>) @@
    ("hello\\s*jarvis" :> <<"hello", WS0, "jarvis">>) @@
    ("hi\\s*jarvis" :> <<"hi", WS0, "jarvis">>) @@
    ("hey\\s*jarvis" :> <<"hey", WS0, "jarvis">>) @@
    ("good\\s+morning" :> <<"good", WS1, "morning">>) @@
    ("good\\s+afternoon" :> <<"good", WS1, "afternoon">>) @@
    ("good\\s+evening" :> <<"good", WS1, "evening">>) @@
    ("clear\\s+history" :> <<"clear", WS1, "history">>) @@
    ("set\\s+personality\\s+(.+)" :> <<"set", WS1, "personality", WS1, CapAny1>>) @@
    ("help" :> <<"help">>) @@
    ("what\\s+can\\s+you\\s+do" :> <<"what", WS1, "can", WS1, "you", WS1, "do">>) @@
    ("commands" :> <<"commands">>) @@
    ("(.*)" :> <<CapAny0>>)

\* What one call on the system controller does: it returns its normal status,
\* returns the status of something not found, returns the status of an
\* exception it caught itself, or raises.
SCResults == {"ok", "notfound", "failed", "raise"}

music_apps == <<<<"vlc">>, <<"windows media player">>, <<"groove music">>>>

\* A handler makes at most this many collaborator calls (handle_play_music:
\* spotify and then music_apps).
MaxCalls == 1 + Len(music_apps)

\* str(e): the text of the exception a collaborator caught.
FaultText == "<str(e)>"

\* The status string a system-controller method returns.  open_application
\* puts the text of the exception it caught into the string it returns.
SCReturn(method, arg, res) ==
    IF res = "notfound"
    THEN IF method = "open_application"
         THEN <<"Could not find application: ">> \o arg
         ELSE <<"Failed: ", method>>
    ELSE IF res = "failed"
    THEN IF method = "open_application"
         THEN <<"Failed to open ">> \o arg \o <<": ", FaultText>>
         ELSE <<"Failed: ", method>>
    ELSE <<method, ": ">> \o arg

\* "Could not find" in result
CouldNotFind(result) == result # <<>> /\ result[1] = "Could not find application: "

\* What a handler hands back: its return value or the fault it lets escape
\* (fault keeps that a fault left the handler, also once it is caught), the
\* adapter state it leaves, the collaborator calls it made and the questions
\* it asked the adapter.
HandlerResult(st, raised, response, calls) ==
    [raised |-> raised, fault |-> raised, response |-> response, calls |-> calls,
     hist |-> st.hist, pers |-> st.pers, now |-> st.now,
     backend |-> "none", prompts |-> <<>>, asks |-> <<>>]

\* A call on the system controller: the method, its argument, and what the
\* call did.
Call(method, arg, res) == [m |-> method, a |-> arg, r |-> res]

\* A handler that calls one method and returns what it returns.
Delegate(st, method, arg, beh) ==
    IF beh[1] = "raise"
    THEN HandlerResult(st, TRUE, <<>>, <<Call(method, arg, beh[1])>>)
    ELSE HandlerResult(st, FALSE, SCReturn(method, arg, beh[1]),
                       <<Call(method, arg, beh[1])>>)

\* A handler that calls nothing and returns fixed text.
Fixed(st, response) == HandlerResult(st, FALSE, response, <<>>)

\* An adapter method's result as a handler's result.
FromAI(r, response, asks) ==
    [raised |-> r.raised, fault |-> r.raised, response |-> response, calls |-> <<>>,
     hist |-> r.hist, pers |-> r.pers, now |-> r.now,
     backend |-> r.backend, prompts |-> r.prompts, asks |-> asks]

FolderPrompt == <<"Please specify a folder name, sir.">>

\* handle_create_folder: a blank name is refused; otherwise the target path
\* is built with os.path, and os is not imported by the module: NameError.
handle_create_folder(st, folder_name, beh) ==
    IF folder_name = <<>> \/ Strip(folder_name) = <<>>
    THEN Fixed(st, FolderPrompt)
    ELSE HandlerResult(st, TRUE, <<>>, <<>>)

\* handle_search_files
handle_search_files(st, search_term, beh) ==
    LET calls == <<Call("search_files", search_term, beh[1])>>
    IN  IF beh[1] = "raise" THEN HandlerResult(st, TRUE, <<>>, calls)
        ELSE IF beh[1] = "ok"
        THEN HandlerResult(st, FALSE, <<"Found files matching '">> \o search_term \o <<"', sir.">>, calls)
        ELSE HandlerResult(st, FALSE, <<"No files found matching '">> \o search_term \o <<"', sir.">>, calls)

\* handle_play_music: the loop over music_apps from application i on, after
\* the calls made so far.
RECURSIVE PlayMusicLoop(_, _, _, _)
PlayMusicLoop(st, i, beh, calls) ==
    IF i > Len(music_apps)
    THEN HandlerResult(st, FALSE, <<"Opening default music application, sir.">>, calls)
    ELSE LET app == music_apps[i]
             res == beh[i + 1]
             calls2 == Append(calls, Call("open_application", app, res))
         IN  IF res = "raise" THEN HandlerResult(st, TRUE, <<>>, calls2)
             ELSE IF ~CouldNotFind(SCReturn("open_application", app, res))
             THEN HandlerResult(st, FALSE, <<"Opening ">> \o app \o <<" for music, sir.">>, calls2)
             ELSE PlayMusicLoop(st, i + 1, beh, calls2)

handle_play_music(st, search_term, beh) ==
    IF search_term = <<>> \/ Strip(search_term) = <<>>
    THEN LET calls == <<Call("open_application", <<"spotify">>, beh[1])>>
             result == SCReturn("open_application", <<"spotify">>, beh[1])
         IN  IF beh[1] = "raise" THEN HandlerResult(st, TRUE, <<>>, calls)
             ELSE IF CouldNotFind(result) THEN PlayMusicLoop(st, 1, beh, calls)
             ELSE HandlerResult(st, FALSE, result, calls)
    ELSE Delegate(st, "find_and_play_music", Strip(search_term), beh)

\* handle_system_info
handle_system_info(st, beh) ==
    LET calls == <<Call("get_system_info", <<>>, beh[1])>>
    IN  IF beh[1] = "raise" THEN HandlerResult(st, TRUE, <<>>, calls)
        ELSE IF beh[1] = "ok"
        THEN HandlerResult(st, FALSE, <<"System status: CPU, Memory, Disk, sir.">>, calls)
        ELSE HandlerResult(st, FALSE, <<"Unable to retrieve system information, sir.">>, calls)

DigitValue(d) == CASE d = "5" -> 5 [] OTHER -> 0

\* int(s) for a string of decimal digits
RECURSIVE ToInt(_)
ToInt(s) ==
    IF s = <<>> THEN 0
    ELSE 10 * ToInt(SubSeq(s, 1, Len(s) - 1)) + DigitValue(s[Len(s)])

\* int(s) raises ValueError unless s is a decimal number.
IsInt(s) == s # <<>> /\ \A i \in 1..Len(s) : s[i] \in Digits

\* str.replace('%', '')
RemovePercent(s) == SelectSeq(s, LAMBDA c : c # "%")

\* handle_set_volume
handle_set_volume(st, level, beh) ==
    LET level_str == Strip(RemovePercent(level))
    IN  IF ~IsInt(level_str)
        THEN Fixed(st, <<"Invalid volume level '">> \o level
                       \o <<"', sir. Please specify a number between 0 and 100.">>)
        ELSE LET calls == <<Call("adjust_volume", <<ToInt(level_str)>>, beh[1])>>
             IN  IF beh[1] = "raise" THEN HandlerResult(st, TRUE, <<>>, calls)
                 ELSE HandlerResult(st, FALSE,
                        SCReturn("adjust_volume", level_str, beh[1]), calls)

\* handle_mute
handle_mute(st, beh) ==
    LET calls == <<Call("adjust_volume", <<0>>, beh[1])>>
    IN  IF beh[1] = "raise" THEN HandlerResult(st, TRUE, <<>>, calls)
        ELSE HandlerResult(st, FALSE, <<"Audio muted, sir.">>, calls)

greetings == <<"Hello sir, how may I assist you?",
               "Good to see you, sir. What can I do for you?",
               "At your service, sir.",
               "Hello sir, all systems ready.",
               "Greetings, sir. How may I be of assistance?">>

\* handle_greeting: random.choice(greetings); rnd is the draw.
handle_greeting(st, rnd) == Fixed(st, <<greetings[rnd]>>)

\* handle_general_query: ask_question(query), no context, default preferred_ai.
handle_general_query(st, query, bres) ==
    LET r == ask_question(st, query, <<>>, "claude", bres)
    IN  FromAI(r, r.response,
               <<[question |-> query, context |-> <<>>, preferred_ai |-> "claude"]>>)

\* handle_clear_history
handle_clear_history(st) ==
    FromAI(clear_history(st), <<"Conversation history cleared, sir.">>, <<>>)

\* handle_set_personality
handle_set_personality(st, mode) ==
    LET r == set_personality_mode(st, mode) IN FromAI(r, r.response, <<>>)

\* The method of the system controller a delegating handler calls.
DelegateMethod ==
    [handle_open_application |-> "open_application",
     handle_close_application |-> "close_application",
     handle_open_file |-> "open_file",
     handle_open_folder |-> "open_folder",
     handle_delete_file |-> "delete_file",
     handle_play_youtube |-> "play_youtube_video",
     handle_search_youtube |-> "search_youtube",
     handle_open_website |-> "open_website",
     handle_screenshot |-> "take_screenshot",
     handle_shutdown |-> "shutdown_system",
     handle_restart |-> "restart_system",
     handle_lock_screen |-> "lock_screen"]

\* What the environment does during one dispatch: sc[k] is the outcome of the
\* k-th call on the system controller, bres what the remote backend does,
\* rnd the draw of random.choice.
Envs == [sc : [1..MaxCalls -> SCResults], bres : BackendResults,
         rnd : 1..Len(greetings)]

\* handler(match.group(1)) or handler(): the call of the handler named h.
InvokeHandler(st, h, arg, env) ==
    CASE h \in DOMAIN DelegateMethod -> Delegate(st, DelegateMethod[h], arg, env.sc)
      [] h = "handle_create_folder" -> handle_create_folder(st, arg, env.sc)
      [] h = "handle_search_files" -> handle_search_files(st, arg, env.sc)
      [] h = "handle_play_music" -> handle_play_music(st, arg, env.sc)
      [] h = "handle_system_info" -> handle_system_info(st, env.sc)
      [] h = "handle_set_volume" -> handle_set_volume(st, arg, env.sc)
      [] h = "handle_increase_volume" -> Fixed(st, <<"Increasing volume, sir.">>)
      [] h = "handle_decrease_volume" -> Fixed(st, <<"Decreasing volume, sir.">>)
      [] h = "handle_mute" -> handle_mute(st, env.sc)
      [] h = "handle_time" -> Fixed(st, <<"The current time is <time>, sir.">>)
      [] h = "handle_date" -> Fixed(st, <<"Today is <date>, sir.">>)
      [] h = "handle_greeting" -> handle_greeting(st, env.rnd)
      [] h = "handle_clear_history" -> handle_clear_history(st)
      [] h = "handle_set_personality" -> handle_set_personality(st, arg)
      [] h = "handle_help" -> Fixed(st, <<"I can help you with: ...">>)
      [] h = "custom_echo" -> Fixed(st, <<"custom: ">> \o arg)
      [] h = "custom_raise" -> HandlerResult(st, TRUE, <<>>, <<>>)

DidntCatch == <<"I didn't catch that, sir.">>
ErrorResponse == <<"I encountered an error processing that command, sir.">>

\* The utterances handed to process_command.
Commands ==
    { <<>>, <<" ", " ">>,
      <<"open", " ", "x">>, <<"OPEN", " ", "X", " ">>,
      <<"open", " ", "file", " ", "x">>,
      <<"open", " ", "folder", " ", "x">>,
      <<"open", " ", "website", " ", "x">>,
      <<"re", "start", " ", "system">>,
      <<"shutdown", " ", "system">>,
      <<"lock", " ", "screen">>,
      <<"create", " ", "folder", " ", "x">>,
      <<"play", " ", "music">>,
      <<"play", " ", "music", " ", "x">>,
      <<"play", " ", "x", " ", "on", " ", "youtube">>,
      <<"search", " ", "for", " ", "x">>,
      <<"set", " ", "volume", " ", "to", " ", "5", "5">>,
      <<"mute">>,
      <<"system", " ", "info">>,
      <<"what", " ", "time", " ", "is", " ", "it">>,
      <<"hello", " ", "jarvis">>,
      <<"help">>,
      <<"clear", " ", "history">>,
      <<"set", " ", "personality", " ", "friendly">>,
      <<"set", " ", "personality", " ", "x">>,
      <<"tell", " ", "x">>, <<" ", "TELL", " ", "X">>,
      <<"x">> }

\* The rules handed to add_custom_command and remove_custom_command.
CustomPatterns == { "open\\s+file\\s+(.+)", "(.*)" }
CustomHandlers == { "custom_echo", "custom_raise" }
RemovablePatterns == CustomPatterns \cup { "open\\s+(.+)" }

\* The patterns and the texts of this model, and for each text the patterns
\* re.search finds in it, computed once.
KnownPatterns == {DefaultPatterns[i].pattern : i \in 1..Len(DefaultPatterns)}
                    \cup CustomPatterns
KnownTexts == {Strip(Lower(c)) : c \in Commands}
Found ==
    [t \in KnownTexts |-> {p \in KnownPatterns : re_search(re_compile[p], t).ok} \cup {}]
        @@ <<>>

\* Where a dispatch goes: the text the rules are searched with, the number of
\* rules searched, and the rule whose handler is invoked (0: none) with the
\* argument it gets.
Route(text, tried, rule, handler, arg) ==
    [text |-> text, tried |-> tried, rule |-> rule, handler |-> handler,
     arg |-> arg]

\* for pattern, handler in self.command_patterns.items():
\*     match = re.search(pattern, command)
\* from rule i on.  The first rule whose pattern is found ends the loop, and
\* its handler gets match.group(1); with none found, the command goes to
\* handle_general_query.
RECURSIVE RuleLoopFrom(_, _, _, _)
RuleLoopFrom(patterns, text, found, i) ==
    IF i > Len(patterns)
    THEN Route(text, Len(patterns), 0, "handle_general_query", text)
    ELSE IF patterns[i].pattern \in found
    THEN Route(text, i, i, patterns[i].handler,
               re_search(re_compile[patterns[i].pattern], text).cap)
    ELSE RuleLoopFrom(patterns, text, found, i + 1)

\* The rule loop letting the last rule found win instead of the first.
RuleLoop_last_wins(patterns, text) ==
    LET found == Found[text]
        hits == {i \in 1..Len(patterns) : patterns[i].pattern \in found}
    IN  IF hits = {}
        THEN Route(text, Len(patterns), 0, "handle_general_query", text)
        ELSE LET i == CHOOSE x \in hits : \A y \in hits : x >= y
             IN  Route(text, i, i, patterns[i].handler,
                       re_search(re_compile[patterns[i].pattern], text).cap)

\* The loop over the whole table.
RuleLoop(patterns, text) == RuleLoopFrom(patterns, text, Found[text], 1)

\* process_command up to the call of the handler.
Select(patterns, command) ==
    IF command = <<>> THEN Route(<<>>, 0, 0, "none", <<>>)
    ELSE RuleLoop(patterns, Strip(Lower(command)))

\* The call of the handler without the try around it.
TryHandler_no_except(st, h, arg, env) == InvokeHandler(st, h, arg, env)

\* try: response = handler(...); return response
\* except Exception: return the error response
TryHandler(st, h, arg, env) ==
    LET r == InvokeHandler(st, h, arg, env)
    IN  IF r.raised
        THEN [r EXCEPT !.raised = FALSE, !.response = ErrorResponse]
        ELSE r

\* What process_command hands back, with what it did on the way.
Dispatched(r, route) ==
    [raised |-> r.raised, fault |-> r.fault, response |-> r.response,
     calls |-> r.calls,
     hist |-> r.hist, pers |-> r.pers, now |-> r.now, backend |-> r.backend,
     prompts |-> r.prompts, asks |-> r.asks,
     text |-> route.text, tried |-> route.tried, rule |-> route.rule,
     handler |-> route.handler, arg |-> route.arg]

\* process_command from the call of the handler on: the early return, the
\* handler inside try, or handle_general_query outside it.
Execute(st, route, env) ==
    IF route.handler = "none" THEN Dispatched(Fixed(st, DidntCatch), route)
    ELSE IF route.rule = 0
    THEN Dispatched(handle_general_query(st, route.text, env.bres), route)
    ELSE Dispatched(TryHandler(st, route.handler, route.arg, env), route)

\* process_command(command)
process_command(st, patterns, command, env) ==
    Execute(st, Select(patterns, command), env)

\* add_custom_command: self.command_patterns[pattern] = handler.  A new key
\* goes to the end of the dict; an existing key keeps its place.
add_custom_command(patterns, pattern, handler) ==
    IF \E i \in 1..Len(patterns) : patterns[i].pattern = pattern
    THEN [i \in 1..Len(patterns) |->
             IF patterns[i].pattern = pattern THEN Rule(pattern, handler)
             ELSE patterns[i]]
    ELSE Append(patterns, Rule(pattern, handler))

\* remove_custom_command: del self.command_patterns[pattern]
remove_custom_command(patterns, pattern) ==
    SelectSeq(patterns, LAMBDA r : r.pattern # pattern)

----------------------------------------------------------------------------
(* The dispatcher as a state machine                                       *)

\* At most this many operations are performed in one run.
MaxOps == 2

\* The number of calls on the system controller a dispatch can reach.
Reach(d) ==
    IF d.handler = "handle_play_music" /\ Strip(d.arg) = <<>> THEN MaxCalls
    ELSE IF d.handler \in {"none", "handle_general_query"} THEN 0
    ELSE 1

\* The environments that differ in something the dispatch d can observe: a
\* call is reached only if every call before it reported "notfound".
EnvsFor(d) ==
    { [sc |-> [k \in 1..MaxCalls |-> IF k <= Reach(d) THEN g[k] ELSE "ok"],
       bres |-> b, rnd |-> n] :
        g \in {f \in [1..Reach(d) -> SCResults] :
                 \A j, k \in 1..Reach(d) : j < k /\ f[j] # "notfound" => f[k] = "ok"},
        b \in IF d.handler = "handle_general_query" THEN BackendResults
              ELSE {"answer"},
        n \in IF d.handler = "handle_greeting" THEN 1..Len(greetings) ELSE {1} }

\* The record of the last operation: its name and input, and what it did.
Observed(op, input, d) ==
    [op |-> op, command |-> input, raised |-> d.raised, fault |-> d.fault,
     response |-> d.response,
     calls |-> d.calls, backend |-> d.backend, prompts |-> d.prompts,
     asks |-> d.asks, text |-> d.text, tried |-> d.tried, rule |-> d.rule,
     handler |-> d.handler, arg |-> d.arg]

Nothing(st) == Dispatched(Fixed(st, <<>>), Route(<<>>, 0, 0, "none", <<>>))

\* A process_command call in flight on a thread of its own: the command and
\* the text the rules are searched with, the iterator of the for loop over
\* command_patterns.items() (i entries passed, the size of the dict when the
\* iterator was made), and the table as it was when the call started.
NoDispatch ==
    [active |-> FALSE, command |-> <<>>, text |-> <<>>, i |-> 0, size |-> 0,
     started |-> <<>>]

\* ---------------------------------------------------------------------
\* TextToSpeech (text_to_speech.py).  An utterance is the text with the
\* place it has among the utterances speak accepted; None, the shutdown
\* signal, is the item with id 0.
\* ---------------------------------------------------------------------
ShutdownSignal == [id |-> 0, text |-> ""]

\* TextToSpeech.__init__: an empty Queue, speaking False.  The engine and
\* the worker thread are made inside one try: when pyttsx3.init() raises,
\* engine is None and the thread is never started.
NewTextToSpeech(engine_ok) ==
    [engine |-> engine_ok,
     speech_queue |-> <<>>,
     unfinished_tasks |-> 0,
     speaking |-> FALSE,
     worker |-> IF engine_ok THEN "waiting" ELSE "none",
     current |-> ShutdownSignal,
     caller |-> "idle",
     immediate |-> ShutdownSignal,
     waiter |-> "idle",
     accepted |-> <<>>,
     output |-> <<>>,
     calls |-> 0]

\* Queue.put on the unbounded Queue(): the item goes to the end and the
\* count of unfinished tasks goes up; it never blocks.
QueuePut(t, item) ==
    [t EXCEPT !.speech_queue = Append(@, item),
              !.unfinished_tasks = @ + 1]

\* Queue.get on a non-empty queue: the item at the front.
QueueGet_lifo(q) == [item |-> q[Len(q)], rest |-> SubSeq(q, 1, Len(q) - 1)]

QueueGet(q) == [item |-> Head(q), rest |-> Tail(q)]

\* is_speaking(): speaking is set, or the queue is not empty.
is_speaking(t) == t.speaking \/ t.speech_queue # <<>>

\* Queue.task_done.
task_done(t) == [t EXCEPT !.unfinished_tasks = @ - 1]

\* An utterance reaching the listener: through the engine, or printed.
Uttered(t, item, by) ==
    [t EXCEPT !.output = Append(@, [id |-> item.id, text |-> item.text, by |-> by,
                                    via |-> IF t.engine THEN "engine" ELSE "console"])]

\* print(f"JARVIS: {text}"): the text goes to the console.
Printed(t, item, by) ==
    [t EXCEPT !.output = Append(@, [id |-> item.id, text |-> item.text, by |-> by,
                                    via |-> "console"])]

\* speak_immediately up to engine.say: without an engine the text is
\* printed and the call is over; with one, the caller's thread goes into
\* engine.stop(), engine.say(text), engine.runAndWait().
speak_immediately(t, item) ==
    IF ~t.engine
    THEN Uttered(t, item, "caller")
    ELSE [t EXCEPT !.caller = "saying", !.immediate = item]

\* speak(text, priority): text that is empty or not a str is dropped; a
\* priority text is spoken on the caller's thread; any other text is put
\* on the queue and speak returns.
speak(t, input, priority) ==
    IF input.text = "" \/ ~input.isstr
    THEN t
    ELSE LET acc == [t EXCEPT !.accepted = Append(@, [text |-> input.text,
                                                      priority |-> priority])]
             item == [id |-> Len(acc.accepted), text |-> input.text]
         IN IF priority THEN speak_immediately(acc, item)
            ELSE QueuePut(acc, item)

\* ---------------------------------------------------------------------
\* JarvisGUI (gui_interface.py) and JarvisAssistant (main.py).
\* ---------------------------------------------------------------------
Idle == [op |-> "idle", step |-> 0, arg |-> ""]

\* JarvisGUI.__init__: no window and no widgets yet, empty deques; no
\* thread is inside one of its methods.
NewJarvisGUI ==
    [running |-> FALSE,
     root |-> FALSE,
     commands |-> 0,
     responses |-> 0,
     current_status |-> "Initializing...",
     command_history |-> 0,
     response_history |-> 0,
     response_state |-> "disabled",
     status_label |-> "Initializing...",
     info_labels |-> 0,
     dispatch |-> Idle,
     updater |-> Idle,
     events |-> Idle,
     destroyed |-> FALSE,
     calls |-> 0]

\* JarvisAssistant.__init__: not running, listening for the wake word.  With
\* the two fields of the object go what the loop did last: what listen
\* returned and in which mode, how many listens in a row were for a command,
\* how many commands went to process_command since the wake phrase was last
\* detected, the command that went there last, and whether the turn ended in
\* the except clause.
NoUtterance == <<"None">>

NewJarvisAssistant ==
    [running |-> FALSE,
     listening_for_wake_word |-> TRUE,
     at |-> "loop",
     loops |-> 0,
     mode |-> "none",
     heard |-> NoUtterance,
     streak |-> 0,
     since_wake |-> 0,
     dispatched |-> NoUtterance,
     raised |-> FALSE]

Init ==
    /\ command_patterns = DefaultPatterns
    /\ conversation_history = <<>>
    /\ jarvis_personality = DefaultPersonality
    /\ claude_client \in BOOLEAN
    /\ openai_client \in BOOLEAN
    /\ now = 0
    /\ nops = 0
    /\ last = Observed("init", <<>>, Nothing(AIState))
    /\ inflight = NoDispatch
    /\ tts = NewTextToSpeech(TRUE)
    /\ gui = NewJarvisGUI
    /\ jarvis = NewJarvisAssistant

ProcessCommand ==
    /\ nops < MaxOps
    /\ \E command \in Commands :
         \E route \in {Select(command_patterns, command)} :
           \E env \in EnvsFor(route) :
             \E d \in {Execute(AIState, route, env)} :
               /\ conversation_history' = d.hist
               /\ jarvis_personality' = d.pers
               /\ now' = d.now
               /\ last' = Observed("process_command", command, d)
    /\ nops' = nops + 1
    /\ UNCHANGED <<command_patterns, claude_client, openai_client, inflight, tts, gui, jarvis>>

AddCustomCommand ==
    /\ nops < MaxOps
    /\ \E pattern \in CustomPatterns, handler \in CustomHandlers :
         /\ command_patterns' = add_custom_command(command_patterns, pattern, handler)
         /\ last' = [Observed("add_custom_command", pattern, Nothing(AIState))
                        EXCEPT !.handler = handler]
    /\ nops' = nops + 1
    /\ UNCHANGED <<conversation_history, jarvis_personality, claude_client,
                   openai_client, now, inflight, tts, gui, jarvis>>

RemoveCustomCommand ==
    /\ nops < MaxOps
    /\ \E pattern \in RemovablePatterns :
         /\ command_patterns' = remove_custom_command(command_patterns, pattern)
         /\ last' = Observed("remove_custom_command", pattern, Nothing(AIState))
    /\ nops' = nops + 1
    /\ UNCHANGED <<conversation_history, jarvis_personality, claude_client,
                   openai_client, now, inflight, tts, gui, jarvis>>

Next == ProcessCommand \/ AddCustomCommand \/ RemoveCustomCommand

Spec == Init /\ [][Next]_vars

----------------------------------------------------------------------------
(* The adapter alone as a state machine: an AIAssistant and its callers    *)

\* The clock stops here: at most this many turns are ever added.
MaxTurns == 4

Questions == { <<>>, <<" ">>, <<"tell", " ", "x">>, <<" ", "tell", " ", "x", " ">> }
Contexts == { <<>>, <<"ctx">> }
PreferredAIs == { "claude", "openai", "gemini" }
ModeInputs == ModeNames \cup { <<"bogus">>, <<>> }

\* A method's result as the record of the last operation.
ObservedAI(op, input, r, asks) ==
    Observed(op, input,
             Dispatched(FromAI(r, r.response, asks), Route(<<>>, 0, 0, "none", <<>>)))

InitAI ==
    /\ command_patterns = <<>>
    /\ conversation_history = <<>>
    /\ jarvis_personality = DefaultPersonality
    /\ claude_client \in BOOLEAN
    /\ openai_client \in BOOLEAN
    /\ now = 0
    /\ nops = 0
    /\ last = ObservedAI("init", <<>>, AIResult(AIState, <<>>), <<>>)
    /\ inflight = NoDispatch
    /\ tts = NewTextToSpeech(TRUE)
    /\ gui = NewJarvisGUI
    /\ jarvis = NewJarvisAssistant

AskQuestion(questions, contexts, preferred) ==
    \E question \in questions, context \in contexts, preferred_ai \in preferred,
       bres \in BackendResults :
        \E r \in {ask_question(AIState, question, context, preferred_ai, bres)} :
            /\ r.now <= MaxTurns
            /\ conversation_history' = r.hist
            /\ jarvis_personality' = r.pers
            /\ now' = r.now
            /\ last' = ObservedAI("ask_question", question, r,
                                  <<[question |-> question, context |-> context,
                                     preferred_ai |-> preferred_ai]>>)
            /\ UNCHANGED <<command_patterns, claude_client, openai_client, nops, inflight, tts, gui, jarvis>>

ClearHistory ==
    \E r \in {clear_history(AIState)} :
        /\ conversation_history' = r.hist
        /\ last' = ObservedAI("clear_history", <<>>, r, <<>>)
        /\ UNCHANGED <<command_patterns, jarvis_personality, claude_client,
                       openai_client, now, nops, inflight, tts, gui, jarvis>>

SetPersonalityMode ==
    \E mode \in ModeInputs :
        \E r \in {set_personality_mode(AIState, mode)} :
            /\ jarvis_personality' = r.pers
            /\ last' = ObservedAI("set_personality_mode", mode, r, <<>>)
            /\ UNCHANGED <<command_patterns, conversation_history, claude_client,
                           openai_client, now, nops, inflight, tts, gui, jarvis>>

NextAI ==
    \/ AskQuestion(Questions, Contexts, PreferredAIs)
    \/ ClearHistory
    \/ SetPersonalityMode

SpecAI == InitAI /\ [][NextAI]_vars

----------------------------------------------------------------------------
(* The dialogue history filled past its capacity                           *)

\* The clock stops here: at most this many turns are ever added.
MaxAppends == 15

AddToHistory ==
    /\ now < MaxAppends
    /\ \E user_input \in {<<"tell", " ", "x">>}, assistant_response \in {BackendAnswer} :
         /\ conversation_history' =
                add_to_history(conversation_history, now, user_input, assistant_response)
         /\ last' = [ObservedAI("add_to_history", user_input, AIResult(AIState, <<>>), <<>>)
                        EXCEPT !.arg = assistant_response]
    /\ now' = now + 1
    /\ UNCHANGED <<command_patterns, jarvis_personality, claude_client,
                   openai_client, nops, inflight, tts, gui, jarvis>>

AskPlain ==
    /\ now < MaxAppends
    /\ AskQuestion({<<"tell", " ", "x">>}, {<<>>}, {"claude"})

NextHistory == AddToHistory \/ AskPlain \/ ClearHistory

SpecHistory == InitAI /\ [][NextHistory]_vars

----------------------------------------------------------------------------
(* A dispatch in flight on one thread while another thread changes the     *)
(* rule table.  Each turn of the for loop is one step; the calls of the    *)
(* other thread fall between the turns.                                    *)

ConcurrentCommands ==
    { <<"open", " ", "file", " ", "x">>, <<"help">>, <<"tell", " ", "x">> }

\* process_command up to the for statement: the text is normalised and the
\* iterator over command_patterns.items() is made.
BeginDispatch ==
    /\ ~inflight.active
    /\ nops < MaxOps
    /\ \E command \in ConcurrentCommands :
         inflight' = [active |-> TRUE, command |-> command,
                      text |-> Strip(Lower(command)), i |-> 0,
                      size |-> Len(command_patterns),
                      started |-> command_patterns]
    /\ nops' = nops + 1
    /\ UNCHANGED <<command_patterns, conversation_history, jarvis_personality,
                   claude_client, openai_client, now, last, tts, gui, jarvis>>

\* The end of the call in flight: d is what it did.
EndDispatch(d) ==
    /\ conversation_history' = d.hist
    /\ jarvis_personality' = d.pers
    /\ now' = d.now
    /\ last' = Observed("process_command", inflight.command, d)
    /\ inflight' = NoDispatch
    /\ UNCHANGED <<command_patterns, claude_client, openai_client, nops, tts, gui, jarvis>>

\* The iterator's next() on a dict whose size is no longer the size it had
\* when the iterator was made: RuntimeError, raised in the for statement,
\* outside the try, so it leaves process_command.
DispatchIterationFault ==
    /\ inflight.active
    /\ Len(command_patterns) # inflight.size
    /\ EndDispatch(Dispatched(HandlerResult(AIState, TRUE, <<>>, <<>>),
                              Route(inflight.text, inflight.i, 0, "none", <<>>)))

\* A turn of the loop whose pattern is not found: on to the next entry.
DispatchPass ==
    /\ inflight.active
    /\ Len(command_patterns) = inflight.size
    /\ inflight.i < Len(command_patterns)
    /\ command_patterns[inflight.i + 1].pattern \notin Found[inflight.text]
    /\ inflight' = [inflight EXCEPT !.i = @ + 1]
    /\ UNCHANGED <<command_patterns, conversation_history, jarvis_personality,
                   claude_client, openai_client, now, nops, last, tts, gui, jarvis>>

\* A turn of the loop whose pattern is found: the handler the entry holds
\* now is called, inside try.
DispatchMatch ==
    /\ inflight.active
    /\ Len(command_patterns) = inflight.size
    /\ inflight.i < Len(command_patterns)
    /\ \E rule \in {command_patterns[inflight.i + 1]} :
         /\ rule.pattern \in Found[inflight.text]
         /\ \E route \in {Route(inflight.text, inflight.i + 1, inflight.i + 1,
                                rule.handler,
                                re_search(re_compile[rule.pattern], inflight.text).cap)} :
              \E env \in EnvsFor(route) :
                EndDispatch(Execute(AIState, route, env))

\* The iterator is exhausted: the command goes to handle_general_query.
DispatchExhausted ==
    /\ inflight.active
    /\ Len(command_patterns) = inflight.size
    /\ inflight.i >= Len(command_patterns)
    /\ \E route \in {Route(inflight.text, inflight.i, 0, "handle_general_query",
                           inflight.text)} :
         \E env \in EnvsFor(route) :
           EndDispatch(Execute(AIState, route, env))

\* remove_custom_command on the other thread.  The entries of a dict keep
\* their places when one is deleted, so an iterator that has passed the
\* deleted entry has one entry less behind it.
RemoveCustomCommandMeanwhile ==
    /\ nops < MaxOps
    /\ \E pattern \in RemovablePatterns :
         /\ command_patterns' = remove_custom_command(command_patterns, pattern)
         /\ last' = Observed("remove_custom_command", pattern, Nothing(AIState))
         /\ inflight' =
              IF inflight.active
                 /\ \E k \in 1..inflight.i :
                      k <= Len(command_patterns) /\ command_patterns[k].pattern = pattern
              THEN [inflight EXCEPT !.i = @ - 1]
              ELSE inflight
    /\ nops' = nops + 1
    /\ UNCHANGED <<conversation_history, jarvis_personality, claude_client,
                   openai_client, now, tts, gui, jarvis>>

NextConcurrent ==
    \/ BeginDispatch
    \/ DispatchIterationFault
    \/ DispatchPass
    \/ DispatchMatch
    \/ DispatchExhausted
    \/ AddCustomCommand
    \/ RemoveCustomCommandMeanwhile

SpecConcurrent == Init /\ [][NextConcurrent]_vars

----------------------------------------------------------------------------
(* The handlers of system actions called one by one, with any argument    *)

\* The handlers that act on the system or answer with fixed text.
ActionHandlers ==
    DOMAIN DelegateMethod \cup
    { "handle_create_folder", "handle_search_files", "handle_play_music",
      "handle_system_info", "handle_set_volume", "handle_increase_volume",
      "handle_decrease_volume", "handle_mute", "handle_time", "handle_date",
      "handle_greeting", "handle_help" }

\* The handlers that take no argument.
NoArgumentHandlers ==
    { "handle_system_info", "handle_increase_volume", "handle_decrease_volume",
      "handle_mute", "handle_screenshot", "handle_shutdown", "handle_restart",
      "handle_lock_screen", "handle_time", "handle_date", "handle_greeting",
      "handle_help" }

\* The arguments handed to a handler: blank ones, a name with and without
\* blanks around it, numbers with and without a percent sign.
HandlerArgs ==
    { <<>>, <<" ">>, <<"x">>, <<" ", "x", " ">>, <<"5", "5">>,
      <<"5", "5", "%">>, <<"5", "%", "5">>, <<"5", "x">> }

CallHandler ==
    \E h \in ActionHandlers :
      \E arg \in IF h \in NoArgumentHandlers THEN {<<>>} ELSE HandlerArgs :
        \E route \in {Route(<<>>, 0, 0, h, arg)} :
          \E env \in EnvsFor(route) :
            \E d \in {Dispatched(InvokeHandler(AIState, h, arg, env), route)} :
              /\ last' = Observed("handler", arg, d)
              /\ UNCHANGED <<command_patterns, conversation_history,
                             jarvis_personality, claude_client, openai_client,
                             now, nops, inflight, tts, gui, jarvis>>

NextHandlers == CallHandler

\* These handlers do not use the adapter: it is left without backends.
InitHandlers == Init /\ ~claude_client /\ ~openai_client

SpecHandlers == InitHandlers /\ [][NextHandlers]_vars

----------------------------------------------------------------------------
(* The adapter without backends: the local rule-based responder            *)

\* Questions with one keyword, with none, and with keywords of two kinds;
\* "today" holds "day" and "this" holds "hi".
LocalQuestions ==
    { <<>>,
      <<"hello">>, <<"hi">>, <<"hey">>, <<"hey", " ", "x">>, <<"greetings">>,
      <<"x">>, <<"date", " ", "x">>,
      <<"time">>, <<"what", " ", "time">>, <<"date">>, <<"day">>, <<"to", "day">>,
      <<"weather">>, <<"x", " ", "weather", " ", "x">>,
      <<"how", " ", "are", " ", "you">>,
      <<"x", " ", "how", " ", "are", " ", "you">>,
      <<"how", " ", "do", " ", "you", " ", "feel">>,
      <<"tell", " ", "x">>, <<" ", "TELL", " ", "X">>,
      <<"weather", " ", "to", "day">>,
      <<"t", "hi", "s", " ", "weather">>,
      <<"hello", " ", "how", " ", "are", " ", "you">> }

\* No API key is set: neither client is made.
InitLocal == InitAI /\ ~claude_client /\ ~openai_client

AskLocal == AskQuestion(LocalQuestions, Contexts, PreferredAIs)

NextLocal == AskLocal

SpecLocal == InitLocal /\ [][NextLocal]_vars

----------------------------------------------------------------------------
(* The TextToSpeech object: callers on the main thread, the worker thread *)
(* _speech_worker, and a thread blocked in wait_until_done.               *)

MaxSpeak == 4

SpeakInputs ==
    {[isstr |-> TRUE, text |-> ""], [isstr |-> TRUE, text |-> "a"],
     [isstr |-> TRUE, text |-> "b"], [isstr |-> FALSE, text |-> "5"]}

assistant_vars ==
    <<command_patterns, conversation_history, jarvis_personality, claude_client,
      openai_client, now, nops, last, inflight>>

InitTTS ==
    /\ command_patterns = <<>>
    /\ conversation_history = <<>>
    /\ jarvis_personality = DefaultPersonality
    /\ claude_client = FALSE
    /\ openai_client = FALSE
    /\ now = 0
    /\ nops = 0
    /\ last = ObservedAI("init", <<>>, AIResult(AIState, <<>>), <<>>)
    /\ inflight = NoDispatch
    /\ tts \in {NewTextToSpeech(engine_ok) : engine_ok \in BOOLEAN}
    /\ gui = NewJarvisGUI
    /\ jarvis = NewJarvisAssistant

\* A call of speak from the main thread.
Speak ==
    /\ tts.calls < MaxSpeak
    /\ tts.caller = "idle"
    /\ \E input \in SpeakInputs, priority \in BOOLEAN :
         tts' = [speak(tts, input, priority) EXCEPT !.calls = @ + 1]
    /\ UNCHANGED <<assistant_vars, gui, jarvis>>

\* The end of speak_immediately with an engine: runAndWait returns and the
\* text was spoken, or the engine raised and the except clause printed the
\* text.
SpeakImmediatelyEnd ==
    /\ tts.caller = "saying"
    /\ \E spoken \in BOOLEAN :
         tts' = [(IF spoken THEN Uttered(tts, tts.immediate, "caller")
                  ELSE Printed(tts, tts.immediate, "caller"))
                    EXCEPT !.caller = "idle", !.immediate = ShutdownSignal]
    /\ UNCHANGED <<assistant_vars, gui, jarvis>>

\* _speech_worker at speech_queue.get(): it blocks while the queue is
\* empty; None ends the loop (without task_done); any other text is held by
\* the worker, which has yet to set speaking.
WorkerGet ==
    /\ tts.worker = "waiting"
    /\ tts.speech_queue # <<>>
    /\ \E g \in {QueueGet(tts.speech_queue)} :
         tts' = IF g.item = ShutdownSignal
                THEN [tts EXCEPT !.speech_queue = g.rest, !.worker = "stopped"]
                ELSE [tts EXCEPT !.speech_queue = g.rest, !.worker = "taken",
                                 !.current = g.item]
    /\ UNCHANGED <<assistant_vars, gui, jarvis>>

\* _speech_worker sets speaking and goes to the engine.
WorkerBegin ==
    /\ tts.worker = "taken"
    /\ tts' = [tts EXCEPT !.speaking = TRUE, !.worker = "speaking"]
    /\ UNCHANGED <<assistant_vars, gui, jarvis>>

\* _speech_worker after engine.say / runAndWait: the text was spoken, then
\* speaking is cleared and task_done called; or the engine raised, and the
\* except clause clears speaking and goes round the loop without task_done.
WorkerSay ==
    /\ tts.worker = "speaking"
    /\ \E spoken \in BOOLEAN :
         tts' = [(IF spoken THEN task_done(Uttered(tts, tts.current, "worker")) ELSE tts)
                    EXCEPT !.speaking = FALSE, !.worker = "waiting",
                           !.current = ShutdownSignal]
    /\ UNCHANGED <<assistant_vars, gui, jarvis>>

\* clear_queue, or stop_speaking (engine.stop() and then clear_queue), is
\* entered on the main thread.
ClearQueue ==
    /\ tts.calls < MaxSpeak
    /\ tts.caller = "idle"
    /\ tts' = [tts EXCEPT !.caller = "clearing", !.calls = @ + 1]
    /\ UNCHANGED <<assistant_vars, gui, jarvis>>

\* One turn of the loop of clear_queue: an empty queue ends it, otherwise
\* get_nowait takes the front item and task_done is called.
ClearQueueStep ==
    /\ tts.caller = "clearing"
    /\ tts' = IF tts.speech_queue = <<>>
              THEN [tts EXCEPT !.caller = "idle"]
              ELSE task_done([tts EXCEPT !.speech_queue = Tail(@)])
    /\ UNCHANGED <<assistant_vars, gui, jarvis>>

\* shutdown: None is put on the queue, the engine is stopped.
Shutdown ==
    /\ tts.calls < MaxSpeak
    /\ tts.caller = "idle"
    /\ tts' = [QueuePut(tts, ShutdownSignal) EXCEPT !.calls = @ + 1]
    /\ UNCHANGED <<assistant_vars, gui, jarvis>>

\* wait_until_done is entered: speech_queue.join().
WaitUntilDone ==
    /\ tts.calls < MaxSpeak
    /\ tts.waiter # "joining"
    /\ tts' = [tts EXCEPT !.waiter = "joining", !.calls = @ + 1]
    /\ UNCHANGED <<assistant_vars, gui, jarvis>>

\* join returns once no task is unfinished: wait_until_done has returned.
JoinReturn ==
    /\ tts.waiter = "joining"
    /\ tts.unfinished_tasks = 0
    /\ tts' = [tts EXCEPT !.waiter = "returned"]
    /\ UNCHANGED <<assistant_vars, gui, jarvis>>

NextTTS ==
    \/ Speak
    \/ SpeakImmediatelyEnd
    \/ WorkerGet
    \/ WorkerBegin
    \/ WorkerSay
    \/ ClearQueue
    \/ ClearQueueStep
    \/ Shutdown
    \/ WaitUntilDone
    \/ JoinReturn

SpecTTS == InitTTS /\ [][NextTTS]_vars

----------------------------------------------------------------------------
(* The display: the dispatch thread (main_loop) calls add_command,        *)
(* add_response and update_status; the update thread calls               *)
(* update_displays every second; the GUI thread runs mainloop, where the  *)
(* "Clear History" button calls clear_displays.  No method takes a lock   *)
(* or hands its work to the GUI thread.                                   *)

MaxGuiCalls == 3

Statuses == {"Listening for command...", "Listening for wake word..."}

DispatchOps == {"add_command", "add_response", "update_status"}

\* The statements of a display method that change display state, in the
\* order the method runs them.  Without a window the widgets are None and
\* only the assignments to the object's own fields are left.
NSteps(g, op) ==
    CASE op = "add_command" -> IF g.root THEN 2 ELSE 1
      [] op = "add_response" -> IF g.root THEN 4 ELSE 1
      [] op = "update_status" -> IF g.root THEN 2 ELSE 1
      [] op = "update_displays" -> 3
      [] op = "clear_displays" -> 6

\* Statement k of the method a thread is in.  tk ignores an insert into, or
\* a delete from, a Text widget whose state is DISABLED.
Statement(g, pc, k) ==
    CASE pc.op = "add_command" ->
           IF k = 1 THEN [g EXCEPT !.commands = @ + 1]
           ELSE [g EXCEPT !.command_history = @ + 1]
      [] pc.op = "add_response" ->
           CASE k = 1 -> [g EXCEPT !.responses = @ + 1]
             [] k = 2 -> [g EXCEPT !.response_state = "normal"]
             [] k = 3 -> IF g.response_state = "normal"
                         THEN [g EXCEPT !.response_history = @ + 1] ELSE g
             [] OTHER -> [g EXCEPT !.response_state = "disabled"]
      [] pc.op = "update_status" ->
           IF k = 1 THEN [g EXCEPT !.current_status = pc.arg]
           ELSE [g EXCEPT !.status_label = pc.arg]
      [] pc.op = "update_displays" -> [g EXCEPT !.info_labels = @ + 1]
      [] pc.op = "clear_displays" ->
           CASE k = 1 -> [g EXCEPT !.command_history = 0]
             [] k = 2 -> [g EXCEPT !.response_state = "normal"]
             [] k = 3 -> IF g.response_state = "normal"
                         THEN [g EXCEPT !.response_history = 0] ELSE g
             [] k = 4 -> [g EXCEPT !.response_state = "disabled"]
             [] k = 5 -> [g EXCEPT !.commands = 0]
             [] OTHER -> [g EXCEPT !.responses = 0]

\* A thread enters a display method.
Enter(g, thread, op, arg) ==
    [g EXCEPT ![thread] = [op |-> op, step |-> 0, arg |-> arg], !.calls = @ + 1]

\* A thread runs the next statement of the method it is in, and leaves the
\* method after the last one.
Advance(g, thread) ==
    LET pc == g[thread]
        done == Statement(g, pc, pc.step + 1)
    IN  [done EXCEPT ![thread] = IF pc.step + 1 >= NSteps(g, pc.op) THEN Idle
                                 ELSE [pc EXCEPT !.step = @ + 1]]

gui_others ==
    <<command_patterns, conversation_history, jarvis_personality, claude_client,
      openai_client, now, nops, last, inflight, tts, jarvis>>

\* JarvisGUI.run on the GUI thread: running is set, create_gui makes the
\* window and the widgets and starts the update thread; then mainloop.
GuiRun ==
    /\ ~gui.running /\ ~gui.root
    /\ gui' = [gui EXCEPT !.running = TRUE, !.root = TRUE]
    /\ UNCHANGED gui_others

\* main_loop calls one of the display methods.
DispatchCall ==
    /\ gui.dispatch = Idle
    /\ gui.calls < MaxGuiCalls
    /\ \E op \in DispatchOps :
         \E arg \in IF op = "update_status" THEN Statuses ELSE {""} :
           gui' = Enter(gui, "dispatch", op, arg)
    /\ UNCHANGED gui_others

DispatchStep ==
    /\ gui.dispatch # Idle
    /\ gui' = Advance(gui, "dispatch")
    /\ UNCHANGED gui_others

\* update_loop calls update_displays, which returns at once without a
\* window.
UpdaterCall ==
    /\ gui.updater = Idle
    /\ gui.running /\ gui.root
    /\ gui.calls < MaxGuiCalls
    /\ gui' = Enter(gui, "updater", "update_displays", "")
    /\ UNCHANGED gui_others

UpdaterStep ==
    /\ gui.updater # Idle
    /\ gui' = Advance(gui, "updater")
    /\ UNCHANGED gui_others

\* mainloop runs the command of the "Clear History" button.
EventCall ==
    /\ gui.events = Idle
    /\ gui.running /\ gui.root
    /\ gui.calls < MaxGuiCalls
    /\ gui' = Enter(gui, "events", "clear_displays", "")
    /\ UNCHANGED gui_others

EventStep ==
    /\ gui.events # Idle
    /\ gui' = Advance(gui, "events")
    /\ UNCHANGED gui_others

NextGUI ==
    \/ GuiRun
    \/ DispatchCall
    \/ DispatchStep
    \/ UpdaterCall
    \/ UpdaterStep
    \/ EventCall
    \/ EventStep

InitGUI == InitAI /\ ~claude_client /\ ~openai_client

SpecGUI == InitGUI /\ [][NextGUI]_vars

----------------------------------------------------------------------------
(* main_loop (main.py): one thread listens, dispatches and speaks.  The    *)
(* GUI thread creates the window and may close it (the Exit button) at any *)
(* time, after which a call on a widget raises TclError.                   *)

MaxLoops == 4

wake_word == <<"hey", " ", "jarvis">>

\* wake_word in audio_text
IsInfix(w, t) ==
    \E i \in 1..(Len(t) - Len(w) + 1) : SubSeq(t, i, i + Len(w) - 1) = w

\* What voice_recognizer.listen returns: None, or the recognised text in
\* lower case.
WakeHeard ==
    {NoUtterance, <<"hey", " ", "jarvis">>, <<"hey", " ", "jarvis", " ", "help">>,
     <<"help">>, <<"hello", " ", "jarvis">>}

CommandHeard == {NoUtterance, <<"help">>, <<"open", " ", "x">>}

Said(text) == [isstr |-> TRUE, text |-> text]

\* The statements k..n of a display method, run by one thread.
RECURSIVE RunStatements(_, _, _, _)
RunStatements(g, pc, k, n) ==
    IF k > n THEN g ELSE RunStatements(Statement(g, pc, k), pc, k + 1, n)

\* A display method called from main_loop.  Its first statement changes a
\* field of the object; the next one calls a widget, and raises once the
\* window has been destroyed.
DisplayCall(g, op, arg) ==
    LET pc == [op |-> op, step |-> 0, arg |-> arg]
    IN  IF g.root /\ g.destroyed
        THEN [raised |-> TRUE, g |-> Statement(g, pc, 1)]
        ELSE [raised |-> FALSE, g |-> RunStatements(g, pc, 1, NSteps(g, op))]

dispatcher_vars ==
    <<command_patterns, conversation_history, jarvis_personality, claude_client,
      openai_client, now, nops, last, inflight>>

InitMain ==
    /\ Init
    /\ ~claude_client /\ ~openai_client

\* JarvisAssistant.start up to main_loop: running is set, the welcome is
\* queued, the GUI thread is started.
Start ==
    /\ ~jarvis.running /\ jarvis.loops = 0 /\ jarvis.mode = "none"
    /\ jarvis' = [jarvis EXCEPT !.running = TRUE, !.mode = "started"]
    /\ tts' = speak(tts, Said("JARVIS is online and ready for commands, sir."), FALSE)
    /\ UNCHANGED <<dispatcher_vars, gui>>

\* The GUI thread started by start: JarvisGUI.run.
MainGuiRun ==
    /\ jarvis.mode # "none"
    /\ GuiRun

\* close_application, the command of the Exit button, on the GUI thread.
CloseApplication ==
    /\ gui.running /\ gui.root /\ ~gui.destroyed
    /\ gui' = [gui EXCEPT !.running = FALSE, !.destroyed = TRUE]
    /\ UNCHANGED gui_others

\* A turn of the loop while listening for the wake word.
WakeTurn ==
    /\ jarvis.running /\ jarvis.at = "loop" /\ jarvis.listening_for_wake_word
    /\ jarvis.loops < MaxLoops
    /\ \E audio_text \in WakeHeard :
         LET turn == [jarvis EXCEPT !.loops = @ + 1, !.mode = "wake",
                                    !.heard = audio_text, !.streak = 0,
                                    !.raised = FALSE]
         IN  IF audio_text # NoUtterance /\ IsInfix(wake_word, audio_text)
             THEN \E d \in {DisplayCall(gui, "update_status", "Listening for command...")} :
                    /\ tts' = speak(tts, Said("Yes sir?"), FALSE)
                    /\ gui' = d.g
                    /\ jarvis' = [turn EXCEPT !.listening_for_wake_word = FALSE,
                                              !.since_wake = 0,
                                              !.raised = d.raised]
             ELSE /\ jarvis' = turn
                  /\ UNCHANGED <<tts, gui>>
    /\ UNCHANGED dispatcher_vars

\* A turn of the loop while listening for a command, up to the call of
\* process_command: listen, and with a command heard, gui.add_command.  An
\* exception ends the turn in the except clause; with nothing heard the
\* turn goes on to its last two statements.
CommandTurn ==
    /\ jarvis.running /\ jarvis.at = "loop" /\ ~jarvis.listening_for_wake_word
    /\ jarvis.loops < MaxLoops
    /\ \E command \in CommandHeard :
         LET turn == [jarvis EXCEPT !.loops = @ + 1, !.mode = "command",
                                    !.heard = command, !.streak = @ + 1,
                                    !.raised = FALSE]
         IN  IF command = NoUtterance
             THEN \E u \in {DisplayCall(gui, "update_status", "Listening for wake word...")} :
                    /\ gui' = u.g
                    /\ jarvis' = [turn EXCEPT !.listening_for_wake_word = TRUE,
                                              !.raised = u.raised]
             ELSE \E a \in {DisplayCall(gui, "add_command", "")} :
                    /\ gui' = a.g
                    /\ jarvis' = IF a.raised THEN [turn EXCEPT !.raised = TRUE]
                                 ELSE [turn EXCEPT !.at = "dispatch"]
    /\ UNCHANGED <<dispatcher_vars, tts>>

\* The rest of the turn without its last two statements: the command is
\* dispatched and the loop stays in command-capture mode.
DispatchTurn_stays_in_capture ==
    /\ jarvis.running /\ jarvis.at = "dispatch"
    /\ \E route \in {Select(command_patterns, jarvis.heard)} :
         \E env \in EnvsFor(route) :
           \E d \in {Execute(AIState, route, env)} :
             /\ conversation_history' = d.hist
             /\ jarvis_personality' = d.pers
             /\ now' = d.now
             /\ last' = Observed("process_command", jarvis.heard, d)
             /\ jarvis' = [jarvis EXCEPT !.at = "loop", !.since_wake = @ + 1,
                                         !.dispatched = jarvis.heard]
    /\ UNCHANGED <<command_patterns, claude_client, openai_client, nops, inflight,
                   tts, gui>>

\* The rest of the turn: process_command, tts.speak and gui.add_response
\* for a response, then back to the wake word and gui.update_status.  An
\* exception on the way ends the turn in the except clause.
DispatchTurn ==
    /\ jarvis.running /\ jarvis.at = "dispatch"
    /\ \E route \in {Select(command_patterns, jarvis.heard)} :
         \E env \in EnvsFor(route) :
           \E d \in {Execute(AIState, route, env)} :
             LET turn == [jarvis EXCEPT !.at = "loop", !.since_wake = @ + 1,
                                        !.dispatched = jarvis.heard]
             IN  /\ conversation_history' = d.hist
                 /\ jarvis_personality' = d.pers
                 /\ now' = d.now
                 /\ last' = Observed("process_command", jarvis.heard, d)
                 /\ IF d.raised
                    THEN /\ jarvis' = [turn EXCEPT !.raised = TRUE]
                         /\ UNCHANGED <<tts, gui>>
                    ELSE \E r \in {IF d.response # <<>>
                                   THEN DisplayCall(gui, "add_response", "")
                                   ELSE [raised |-> FALSE, g |-> gui]} :
                           /\ tts' = IF d.response # <<>>
                                     THEN speak(tts, Said("<response>"), FALSE) ELSE tts
                           /\ IF r.raised
                              THEN /\ gui' = r.g
                                   /\ jarvis' = [turn EXCEPT !.raised = TRUE]
                              ELSE \E u \in {DisplayCall(r.g, "update_status",
                                                         "Listening for wake word...")} :
                                     /\ gui' = u.g
                                     /\ jarvis' = [turn EXCEPT
                                                     !.listening_for_wake_word = TRUE,
                                                     !.raised = u.raised]
    /\ UNCHANGED <<command_patterns, claude_client, openai_client, nops, inflight>>

\* KeyboardInterrupt in the loop: shutdown, and the loop is left.
Interrupt ==
    /\ jarvis.running /\ jarvis.at = "loop"
    /\ jarvis' = [jarvis EXCEPT !.running = FALSE]
    /\ tts' = speak(tts, Said("JARVIS is shutting down. Goodbye sir."), FALSE)
    /\ UNCHANGED <<dispatcher_vars, gui>>

NextMain ==
    \/ Start
    \/ MainGuiRun
    \/ CloseApplication
    \/ WakeTurn
    \/ CommandTurn
    \/ DispatchTurn
    \/ Interrupt

SpecMain == InitMain /\ [][NextMain]_vars

----------------------------------------------------------------------------
(* preprocess_command (command_processor.py), a function of its argument.  *)

\* str.split(): the maximal runs of symbols that are not whitespace.
RECURSIVE SplitFrom(_, _, _)
SplitFrom(t, word, words) ==
    IF t = <<>> THEN IF word = <<>> THEN words ELSE Append(words, word)
    ELSE IF Head(t) \in Whitespace
    THEN SplitFrom(Tail(t), <<>>, IF word = <<>> THEN words ELSE Append(words, word))
    ELSE SplitFrom(Tail(t), Append(word, Head(t)), words)

Split(t) == SplitFrom(t, <<>>, <<>>)

\* ' '.join(words)
RECURSIVE Join(_)
Join(words) ==
    IF words = <<>> THEN <<>>
    ELSE IF Len(words) = 1 THEN words[1]
    ELSE words[1] \o <<" ">> \o Join(Tail(words))

filler_words ==
    << <<"please">>, <<"can", " ", "you">>, <<"could", " ", "you">>,
       <<"would", " ", "you">>, <<"jarvis">> >>

\* word.lower() not in filler_words, for each word of command.split()
preprocess_command(command) ==
    Join(SelectSeq(Split(command),
                   LAMBDA word : \A k \in 1..Len(filler_words) :
                                    Lower(word) # filler_words[k]))

MaxCommandLen == 4

CommandSymbols == {"please", "can", "you", "JARVIS", "open", "x", " "}

PreprocessInputs ==
    UNION {[1..n -> CommandSymbols] : n \in 0..MaxCommandLen}

InitPreprocess == InitAI /\ ~claude_client /\ ~openai_client

\* One call of preprocess_command on a fresh processor.
PreprocessCommand ==
    /\ last.op = "init"
    /\ \E command \in PreprocessInputs :
         last' = Observed("preprocess_command", command,
                          [Nothing(AIState) EXCEPT !.response = preprocess_command(command)])
    /\ UNCHANGED <<command_patterns, conversation_history, jarvis_personality,
                   claude_client, openai_client, now, nops, inflight, tts, gui, jarvis>>

NextPreprocess == PreprocessCommand

SpecPreprocess == InitPreprocess /\ [][NextPreprocess]_vars

----------------------------------------------------------------------------
(* Properties of the dispatcher, checked under Spec                        *)

\* The rules of the table whose pattern re.search finds in the text.
MatchingRules(patterns, text) ==
    {i \in 1..Len(patterns) : re_search(re_compile[patterns[i].pattern], text).ok}

Least(S) == CHOOSE x \in S : \A y \in S : x <= y

IsDispatch == last.op = "process_command"

\* C1: first match wins.  A dispatch of a non-empty command invokes the
\* handler of rule i exactly when rule i's pattern is found in the lower-cased,
\* trimmed text and no rule before i is; it invokes that one handler only,
\* with the captured group, and searches no rule after i.  (An empty command
\* returns before the rules are looked at.)
C1_FirstMatchWins ==
    IsDispatch /\ last.command # <<>> =>
        LET text == Strip(Lower(last.command))
            hits == MatchingRules(command_patterns, text)
        IN  /\ \A i \in 1..Len(command_patterns) :
                  last.rule = i <=> (i \in hits /\ \A j \in hits : i <= j)
            /\ hits = {} => /\ last.rule = 0
                            /\ last.handler = "handle_general_query"
                            /\ last.tried = Len(command_patterns)
            /\ hits # {} => /\ last.handler = command_patterns[Least(hits)].handler
                            /\ last.tried = Least(hits)
                            /\ last.arg = re_search(re_compile[command_patterns[Least(hits)].pattern], text).cap
                            /\ last.asks = <<>>

\* C1 witness: two rules overlap on the text and the earlier one was invoked.
C1_Witness ==
    /\ IsDispatch
    /\ last.rule = 1
    /\ last.handler = "handle_open_application"
    /\ \E j \in 2..Len(command_patterns) :
           re_search(re_compile[command_patterns[j].pattern], last.text).ok

\* C2: in the table built at construction the specific patterns come before
\* the general patterns that overlap them: a command found by the
\* "open file X", "open folder X" or "open website X" pattern is dispatched to
\* the handler of that rule.
C2_SpecificBeforeGeneral ==
    IsDispatch /\ command_patterns = DefaultPatterns /\ last.command # <<>> =>
        \A j \in 1..Len(DefaultPatterns) :
            /\ DefaultPatterns[j].handler \in
                   {"handle_open_file", "handle_open_folder", "handle_open_website"}
            /\ re_search(re_compile[DefaultPatterns[j].pattern], last.text).ok
            => last.handler = DefaultPatterns[j].handler

\* C3: an empty or whitespace-only command gets the fixed response, no rule
\* is searched, no handler and no adapter call is made.
C3_BlankInputShortCircuits ==
    IsDispatch /\ Strip(last.command) = <<>> =>
        /\ last.response = DidntCatch
        /\ last.tried = 0
        /\ last.handler = "none"
        /\ last.asks = <<>>

\* C4: a dispatch always returns a response and lets no fault out; when the
\* handler it invoked raised, the response is the generic error response.
C4_NoFaultEscapes ==
    IsDispatch =>
        /\ ~last.raised
        /\ last.response # <<>>
        /\ last.fault => last.response = ErrorResponse

\* C4 witness: a handler raised during a dispatch and the error response
\* was returned.
C4_Witness ==
    /\ IsDispatch
    /\ last.fault
    /\ last.calls # <<>>
    /\ last.response = ErrorResponse

\* C5: with no rule found for a command that is not blank, the
\* adapter is asked once with the raw command as the question and no context.
C5_FallbackGetsRawInput ==
    IsDispatch /\ Strip(last.command) # <<>> /\ last.rule = 0 =>
        /\ Len(last.asks) = 1
        /\ last.asks[1].question = last.command
        /\ last.asks[1].context = <<>>

----------------------------------------------------------------------------
(* Properties of the adapter, checked under SpecHistory and SpecAI         *)

Min(a, b) == IF a <= b THEN a ELSE b

\* The ask that made the last record was answered by a remote backend.
Answered(l) ==
    /\ l.op = "ask_question"
    /\ l.backend \in {"claude", "openai"}
    /\ l.response = BackendAnswer

\* C6: the history holds at most max_history_length turns, in the order they
\* were added, and they are the turns added last: a step that adds a turn
\* puts it at the end and drops the oldest turn only when the history was
\* full; clear_history empties it; nothing else touches it.
C6_HistoryBounded ==
    [][ LET h == conversation_history
            h2 == conversation_history'
        IN  /\ Len(h2) <= max_history_length
            /\ \A i \in 1..Len(h2) : h2[i].timestamp = now' - Len(h2) + i - 1
            /\ now' = now + 1 =>
                 /\ Len(h2) = Min(Len(h) + 1, max_history_length)
                 /\ h2[Len(h2)].timestamp = now
                 /\ \A i \in 1..(Len(h2) - 1) : h2[i] = h[Len(h) - (Len(h2) - 1) + i]
            /\ now' = now => h2 = h \/ (last'.op = "clear_history" /\ h2 = <<>>) ]_vars

\* C6 witness: 15 turns were added and the history holds the last 10.
C6_Witness ==
    /\ now = 15
    /\ Len(conversation_history) = max_history_length
    /\ conversation_history[1].timestamp = 5
    /\ conversation_history[max_history_length].timestamp = 14

\* C7: an ask adds a turn exactly when a remote backend answered it, and then
\* the one turn (trimmed question, answer) at the end; an ask with an empty
\* question, a backend fault or the local responder leaves the history as it
\* was; and the history grows in no other step.
C7_TurnOnlyAfterAnswer ==
    [][ LET h == conversation_history
            h2 == conversation_history'
        IN  /\ last'.op = "ask_question" /\ Answered(last') =>
                 /\ Len(h2) = Min(Len(h) + 1, max_history_length)
                 /\ h2[Len(h2)].user = Strip(last'.command)
                 /\ h2[Len(h2)].assistant = last'.response
                 /\ \A i \in 1..(Len(h2) - 1) : h2[i] = h[Len(h) - (Len(h2) - 1) + i]
            /\ last'.op = "ask_question" /\ ~Answered(last') => h2 = h
            /\ Len(h2) > Len(h) => Answered(last') ]_vars

\* C7 witness: an ask went to a backend that was faulty, after an answered one.
C7_Witness ==
    /\ last.op = "ask_question"
    /\ last.backend = "openai"
    /\ last.response = OpenAIApology
    /\ Len(conversation_history) = 1

\* C8: set_personality_mode with one of the four modes makes that mode's text
\* the active profile and confirms the mode by name; with anything else it
\* leaves the profile and reports the four modes; no other operation changes
\* the profile, so it is always that of the last valid mode set.
C8_PersonalityLastValidWins ==
    [][ IF last'.op = "set_personality_mode"
        THEN IF last'.command \in ModeNames
             THEN /\ jarvis_personality' = modes[last'.command[1]]
                  /\ Contains(last'.response, last'.command)
                  /\ last'.response[1] = "Personality mode updated to "
             ELSE /\ jarvis_personality' = jarvis_personality
                  /\ last'.response[1] = "Invalid personality mode. Available modes: "
                  /\ \A m \in ModeNames : Contains(last'.response, m)
        ELSE jarvis_personality' = jarvis_personality ]_vars

\* C8 witness: an unknown mode was refused after a valid one had been set.
C8_Witness ==
    /\ last.op = "set_personality_mode"
    /\ last.command = <<"bogus">>
    /\ jarvis_personality = modes.friendly

Available(b) ==
    CASE b = "claude" -> claude_client
      [] b = "openai" -> openai_client
      [] OTHER -> FALSE

\* C9: an ask with a question goes to the preferred backend if that is
\* available, else to claude if available, else to openai if available, and
\* to the local responder only when none is; a backend that is not available
\* is never called.
C9_BackendSelection ==
    last.op = "ask_question" /\ Strip(last.command) # <<>> =>
        LET preferred == last.asks[1].preferred_ai
        IN  /\ Available(preferred) => last.backend = preferred
            /\ ~Available(preferred) /\ claude_client => last.backend = "claude"
            /\ ~Available(preferred) /\ ~claude_client /\ openai_client
                   => last.backend = "openai"
            /\ ~claude_client /\ ~openai_client => last.backend = "local"
            /\ last.backend \in {"claude", "openai"} =>
                   Available(last.backend) /\ Len(last.prompts) = 1
            /\ last.backend = "local" =>
                   ~claude_client /\ ~openai_client /\ last.prompts = <<>>

\* C9 witness: both backends are available and openai, the preferred one,
\* was called.
C9_Witness ==
    /\ last.op = "ask_question"
    /\ claude_client /\ openai_client
    /\ last.asks[1].preferred_ai = "openai"
    /\ last.backend = "openai"

\* C10: the prompt sent to a remote backend holds the active personality
\* text, the last min(3, len(history)) turns in order, the context if one
\* was given, and the question.
C10_PromptComplete ==
    [][ last'.op = "ask_question" /\ last'.prompts # <<>> =>
          LET prompt == last'.prompts[1]
              h == conversation_history
              n == Min(3, Len(h))
          IN  /\ prompt.pers = jarvis_personality
              /\ Len(prompt.turns) = n
              /\ \A i \in 1..n :
                    /\ prompt.turns[i].user = h[Len(h) - n + i].user
                    /\ prompt.turns[i].assistant = h[Len(h) - n + i].assistant
              /\ prompt.ctx = last'.asks[1].context
              /\ prompt.q = Strip(last'.command) ]_vars

\* C11: clear_history empties the dialogue history at once and calling it
\* again changes nothing; the prompt of an ask that follows clear_history
\* holds no earlier turn, whatever the history held before.
C11_ClearHistoryEmpties ==
    [][ /\ last'.op = "clear_history" =>
              /\ conversation_history' = <<>>
              /\ clear_history([AIState EXCEPT !.hist = conversation_history']).hist
                     = conversation_history'
        /\ last.op = "clear_history" /\ last'.op = "ask_question"
             /\ last'.prompts # <<>> =>
              last'.prompts[1].turns = <<>> ]_vars

\* C11 witness: turns were added, the history was cleared, and the next
\* answered ask sent a prompt without turns (its own turn is the only one).
C11_Witness ==
    /\ last.op = "ask_question"
    /\ last.prompts # <<>>
    /\ last.prompts[1].turns = <<>>
    /\ now >= 3
    /\ Len(conversation_history) = 1

\* C12: in every state the adapter reaches, an ask whose remote backend call
\* faults returns the fixed apology of that backend, lets no fault out,
\* leaves the personality and the history as they were, and has called that
\* one backend only.
C12_BackendFaultContained ==
    \A question \in Questions, context \in Contexts, preferred_ai \in PreferredAIs :
        LET r == ask_question(AIState, question, context, preferred_ai, "fault")
        IN  Strip(question) # <<>> /\ (claude_client \/ openai_client) =>
                /\ ~r.raised
                /\ r.backend \in {"claude", "openai"}
                /\ r.response = IF r.backend = "claude" THEN ClaudeApology
                                ELSE OpenAIApology
                /\ r.hist = conversation_history
                /\ r.pers = jarvis_personality
                /\ Len(r.prompts) = 1

\* C12 witness: with both backends available and turns in the history, the
\* claude call faulted and its apology was returned.
C12_Witness ==
    /\ last.op = "ask_question"
    /\ claude_client /\ openai_client
    /\ conversation_history # <<>>
    /\ last.backend = "claude"
    /\ last.response = ClaudeApology

----------------------------------------------------------------------------
(* Properties of the rule table's mutators, checked under Spec             *)

\* The rules of a table whose pattern is not p, in order.
OtherRules(patterns, p) == SelectSeq(patterns, LAMBDA r : r.pattern # p)

\* C13: add_custom_command puts the rule at the end of the rule order, also
\* when its pattern is already in the table, and leaves the rules of the
\* other patterns in their order, so that the added rule has the lowest
\* priority.
C13_AddAppends ==
    [][ last'.op = "add_custom_command" =>
          LET n == Len(command_patterns')
          IN  /\ n > 0
              /\ command_patterns'[n] = Rule(last'.command, last'.handler)
              /\ OtherRules(command_patterns', last'.command)
                     = OtherRules(command_patterns, last'.command) ]_vars

\* The rule a dispatch of the command in flight finds in the table as it was
\* when the call started.
AtStart == Select(inflight.started, inflight.command)

\* C14: a process_command call in flight while rules are added or removed
\* on another thread ends without a fault, with the handler and argument
\* that the table as it was at the start of the call determines.
C14_InFlightUnaffected ==
    [][ inflight.active /\ ~inflight'.active =>
          /\ ~last'.raised
          /\ last'.rule = AtStart.rule
          /\ last'.handler = AtStart.handler
          /\ last'.arg = AtStart.arg ]_vars

----------------------------------------------------------------------------
(* Properties of the handlers, checked under SpecHandlers                  *)

\* C15: every action handler returns text and lets no exception escape,
\* whatever its argument and whatever the system controller does.
C15_HandlersTotal == last.op = "handler" => ~last.raised

\* An argument without the percent sign at its end, if it has one.
DropTrailingPercent(s) ==
    IF s # <<>> /\ s[Len(s)] = "%" THEN SubSeq(s, 1, Len(s) - 1) ELSE s

\* C16: handle_set_volume strips a trailing percent sign and parses the
\* argument as an integer; a number is handed to adjust_volume, once and
\* unclamped, and that call's result is returned; anything else is answered
\* with the validation error naming the argument and the range 0 to 100,
\* without a call.
C16_SetVolume ==
    last.op = "handler" /\ last.handler = "handle_set_volume" =>
        LET s == Strip(DropTrailingPercent(Strip(last.arg)))
        IN  IF IsInt(s)
            THEN /\ Len(last.calls) = 1
                 /\ last.calls[1].m = "adjust_volume"
                 /\ last.calls[1].a = <<ToInt(s)>>
                 /\ ~last.raised =>
                      last.response = SCReturn("adjust_volume", s, last.calls[1].r)
            ELSE /\ last.calls = <<>>
                 /\ ~last.raised
                 /\ last.response =
                      <<"Invalid volume level '">> \o last.arg
                        \o <<"', sir. Please specify a number between 0 and 100.">>

\* C17: handle_create_folder answers a blank argument with the prompt for
\* a name and calls nothing; for any other argument it calls create_folder
\* once and returns the status that call gives.
C17_CreateFolder ==
    last.op = "handler" /\ last.handler = "handle_create_folder" =>
        IF Strip(last.arg) = <<>>
        THEN /\ last.calls = <<>>
             /\ ~last.raised
             /\ last.response = FolderPrompt
        ELSE /\ Len(last.calls) = 1
             /\ last.calls[1].m = "create_folder"
             /\ last.calls[1].r # "raise" =>
                  /\ ~last.raised
                  /\ last.response =
                       SCReturn("create_folder", last.calls[1].a, last.calls[1].r)

\* The applications handle_play_music opens, in the order it tries them.
MusicApplications == <<<<"spotify">>>> \o music_apps

\* C18: handle_play_music with a blank argument opens the applications in
\* their order, one at a time, until one opens, and opens nothing after
\* that; it reports the default application only when none opened.  With
\* any other argument it makes one find_and_play_music call with the
\* trimmed argument and opens nothing.  (A call that raises is left aside.)
C18_PlayMusic ==
    last.op = "handler" /\ last.handler = "handle_play_music" /\ ~last.raised =>
        LET n == Len(last.calls)
        IN  IF Strip(last.arg) = <<>>
            THEN /\ n \in 1..Len(MusicApplications)
                 /\ \A i \in 1..n :
                      /\ last.calls[i].m = "open_application"
                      /\ last.calls[i].a = MusicApplications[i]
                 /\ \A i \in 1..(n - 1) : last.calls[i].r # "ok"
                 /\ n < Len(MusicApplications) => last.calls[n].r = "ok"
                 /\ last.response = <<"Opening default music application, sir.">>
                      <=> \A i \in 1..n : last.calls[i].r # "ok"
            ELSE /\ n = 1
                 /\ last.calls[1].m = "find_and_play_music"
                 /\ last.calls[1].a = Strip(last.arg)
                 /\ last.response =
                      SCReturn("find_and_play_music", Strip(last.arg), last.calls[1].r)

----------------------------------------------------------------------------
(* Properties of the local responder, checked under SpecLocal              *)

\* C19: without a backend the answer follows the keywords the question
\* holds: a greeting word gives the greeting, a time or date word the time
\* sentence, "weather" the weather sentence, "how are you" the status
\* sentence, and a question with none of them the generic sentence; every
\* question holding "weather" gets the weather sentence and every question
\* holding "how are you" the status sentence.
C19_LocalResponder ==
    last.op = "ask_question" /\ last.backend = "local" =>
        LET q == Lower(Strip(last.command))
            greeting == ContainsAny(q, {<<"hello">>, <<"hi">>, <<"hey">>, <<"greetings">>})
            time == ContainsAny(q, {<<"time">>, <<"date">>, <<"day">>})
            weather == Contains(q, <<"weather">>)
            status == Contains(q, <<"how", " ", "are", " ", "you">>)
        IN  /\ greeting => last.response = <<"Hello sir. How may I assist you today?">>
            /\ time => last.response = <<"The current time is <now>, sir.">>
            /\ weather => last.response =
                 <<"I would need to access weather services to provide that information, sir.">>
            /\ status => last.response =
                 <<"All systems are operating at optimal capacity, sir.">>
            /\ ~(greeting \/ time \/ weather \/ status
                   \/ Contains(q, <<"how", " ", "do", " ", "you", " ", "feel">>)) =>
                 last.response =
                   <<"I apologize, sir, but I need access to my AI systems to answer that question properly.">>


----------------------------------------------------------------------------
(* Properties of TextToSpeech, checked under SpecTTS                       *)

\* What the worker thread has output so far, in the order it did.
WorkerOutput(t) == SelectSeq(t.output, LAMBDA o : o.by = "worker")

\* C20: in-order playback.  speak(text) without priority, for a non-empty
\* str, puts the text at the end of the queue and is over in that one step:
\* nothing is output and neither the worker nor the caller moves.  What the
\* worker outputs are utterances that were put on the queue, with their text,
\* in the order they were put there, none of them twice.
C20_InOrderPlayback ==
    [][ /\ ( /\ Len(tts'.accepted) = Len(tts.accepted) + 1
             /\ ~tts'.accepted[Len(tts'.accepted)].priority )
          => /\ tts'.speech_queue =
                  Append(tts.speech_queue,
                         [id |-> Len(tts'.accepted),
                          text |-> tts'.accepted[Len(tts'.accepted)].text])
             /\ tts'.output = tts.output
             /\ tts'.worker = tts.worker
             /\ tts'.caller = "idle"
        /\ LET w == WorkerOutput(tts')
           IN  /\ \A k \in 1..Len(w) :
                     /\ w[k].id \in 1..Len(tts'.accepted)
                     /\ ~tts'.accepted[w[k].id].priority
                     /\ w[k].text = tts'.accepted[w[k].id].text
               /\ \A j, k \in 1..Len(w) : j < k => w[j].id < w[k].id
      ]_vars

\* Two texts were queued together behind one another and the worker has
\* output both.
C20_Witness ==
    LET w == WorkerOutput(tts)
    IN  /\ Len(w) >= 2
        /\ w[1].text # w[2].text
        /\ w[2].id = w[1].id + 1
        /\ tts.worker = "waiting"
        /\ tts.speech_queue # <<>>

\* The scheduling the threads justify: a thread that can take its next step
\* takes it.  The worker thread, a caller inside speak_immediately or
\* clear_queue, and a thread in join are each scheduled fairly; whether the
\* engine speaks or raises is not a matter of scheduling.
FairTTS ==
    /\ WF_vars(WorkerGet)
    /\ WF_vars(WorkerBegin)
    /\ WF_vars(WorkerSay)
    /\ WF_vars(SpeakImmediatelyEnd)
    /\ WF_vars(ClearQueueStep)
    /\ WF_vars(JoinReturn)

SpecTTSFair == InitTTS /\ [][NextTTS]_vars /\ FairTTS

\* C21: wait_until_done returns.  With an engine, and so a worker thread,
\* every call of wait_until_done that has entered speech_queue.join()
\* eventually returns.
C21_WaitUntilDoneReturns ==
    (tts.engine /\ tts.waiter = "joining") ~> (tts.waiter = "returned")

----------------------------------------------------------------------------
(* Properties of the display, checked under SpecGUI                        *)

\* A thread is in the middle of changing display state: it has run a
\* statement of a display method and has more of them to run.
Mutating(thread) == gui[thread].op # "idle" /\ gui[thread].step >= 1

\* C22: display state is changed from one context at a time.  No two of the
\* dispatch thread, the update thread and the GUI event loop are in the
\* middle of a display method together.
C22_OneMutatorAtATime ==
    Cardinality({thread \in {"dispatch", "updater", "events"} : Mutating(thread)}) <= 1


\* The system-power commands, the handler each is registered for and the
\* collaborator method that handler calls.
PowerCommands ==
    { [text |-> <<"shutdown", " ", "system">>, handler |-> "handle_shutdown",
       method |-> "shutdown_system"],
      [text |-> <<"re", "start", " ", "system">>, handler |-> "handle_restart",
       method |-> "restart_system"],
      [text |-> <<"lock", " ", "screen">>, handler |-> "handle_lock_screen",
       method |-> "lock_screen"] }

\* C26: power commands reach their own handlers.  With the table __init__
\* builds, a dispatch of "shutdown system", "restart system" or "lock screen"
\* invokes the handler registered for it, which calls the collaborator's
\* shutdown, restart or lock method and no open_application or
\* close_application.
C26_PowerCommandsOwnHandler ==
    IsDispatch /\ command_patterns = DefaultPatterns =>
        \A p \in PowerCommands :
            last.command = p.text =>
                /\ last.handler = p.handler
                /\ \A k \in 1..Len(last.calls) : last.calls[k].m = p.method
----------------------------------------------------------------------------
(* Fault containment at the user's side, checked under Spec                *)

\* An internal fault happened in the dispatch: a handler let a fault
\* escape, a collaborator raised or caught a fault of its own, or a backend
\* call failed.
InternalFault ==
    \/ last.fault
    \/ \E k \in 1..Len(last.calls) : last.calls[k].r \in {"failed", "raise"}
    \/ last.response \in {ClaudeApology, OpenAIApology}

\* C23: no raw fault text reaches the user.  The response of a dispatch in
\* which an internal fault happened holds no text of the fault.
C23_NoFaultTextInResponse ==
    IsDispatch /\ InternalFault =>
        \A k \in 1..Len(last.response) : last.response[k] # FaultText

----------------------------------------------------------------------------
(* Properties of the main loop, checked under SpecMain                     *)

\* C24: the wake phrase admits one command.  A command is on its way to
\* process_command only in command-capture mode; that mode is entered only
\* by a turn that heard an utterance holding the wake phrase; a turn that
\* listened for the wake phrase passes nothing to process_command; and no
\* more than one command goes to process_command after one detection of the
\* wake phrase.
C24_WakeAdmitsOneCommand ==
    /\ [](jarvis.at = "dispatch" =>
            ~jarvis.listening_for_wake_word /\ jarvis.mode = "command")
    /\ [](jarvis.since_wake <= 1)
    /\ [][ /\ (jarvis.listening_for_wake_word /\ ~jarvis'.listening_for_wake_word)
               => jarvis'.mode = "wake" /\ IsInfix(wake_word, jarvis'.heard)
           /\ (jarvis'.loops # jarvis.loops /\ jarvis'.mode = "wake")
               => last' = last /\ jarvis'.dispatched = jarvis.dispatched
         ]_vars


\* A command was dispatched after the wake phrase and the response was
\* lost to a destroyed window, so the turn ended in the except clause; the
\* next listen heard another command, which was not dispatched.
C24_Witness ==
    /\ jarvis.since_wake = 1
    /\ jarvis.dispatched = <<"help">>
    /\ jarvis.mode = "command"
    /\ jarvis.heard = <<"open", " ", "x">>
    /\ jarvis.at = "loop"
    /\ jarvis.streak = 2
\* C27: one listen per capture.  Whenever the loop is between two turns
\* after a turn that listened for a command, it is listening for the wake
\* word again; no two listens in a row are for a command.
C27_BackToWakeWord ==
    /\ jarvis.streak <= 1
    /\ (jarvis.mode = "command" /\ jarvis.at = "loop")
          => jarvis.listening_for_wake_word

----------------------------------------------------------------------------
(* Properties of preprocess_command, checked under SpecPreprocess          *)

\* The words the filler phrases are made of.
FillerVocabulary ==
    UNION {{Split(filler_words[k])[j] : j \in 1..Len(Split(filler_words[k]))} :
             k \in 1..Len(filler_words)}

NotFiller(word) == Lower(word) \notin FillerVocabulary

\* C25: preprocess_command removes the filler phrases.  In its result no
\* filler phrase is left, as the words of the phrase one after the other in
\* any case of letters; the words that belong to no filler phrase are those
\* of the command, in their order; and the result is a fixed point.
C25_FillersRemoved ==
    last.op = "preprocess_command" =>
        LET out == last.response
        IN  /\ \A k \in 1..Len(filler_words) :
                  ~IsInfix(Split(filler_words[k]), Split(Lower(out)))
            /\ SelectSeq(Split(out), NotFiller) = SelectSeq(Split(last.command), NotFiller)
            /\ preprocess_command(out) = out

\* C28: one thread in the engine.  The caller of speak_immediately and the
\* worker are never both between engine.say and the return of runAndWait;
\* and a speak with priority leaves the queue as it is.
C28_OneThreadInEngine ==
    /\ [](~(tts.caller = "saying" /\ tts.worker = "speaking"))
    /\ [][ ( /\ Len(tts'.accepted) = Len(tts.accepted) + 1
             /\ tts'.accepted[Len(tts'.accepted)].priority )
           => tts'.speech_queue = tts.speech_queue ]_vars

\* The utterances speak has put on the queue that are not finished: still
\* on the queue, or held by the worker.
Unfinished(t) ==
    \/ \E k \in 1..Len(t.speech_queue) : t.speech_queue[k] # ShutdownSignal
    \/ t.worker \in {"taken", "speaking"}

\* C29: is_speaking tells whether speech is pending.  It is true in every
\* state with an unfinished utterance, and false in every state with none
\* and an empty queue.
C29_IsSpeaking ==
    /\ Unfinished(tts) => is_speaking(tts)
    /\ (~Unfinished(tts) /\ tts.speech_queue = <<>>) => ~is_speaking(tts)

\* The utterance accepted as the i-th is on the queue; it has been output.
Queued(i) == \E k \in 1..Len(tts.speech_queue) : tts.speech_queue[k].id = i

Output(i) == \E k \in 1..Len(tts.output) : tts.output[k].id = i

\* shutdown has been called: its None is on the queue or has stopped the
\* worker.
ShutdownRequested ==
    \/ \E k \in 1..Len(tts.speech_queue) : tts.speech_queue[k] = ShutdownSignal
    \/ tts.worker = "stopped"

\* C30: queued utterances are output.  Under fair scheduling, every
\* utterance speak has put on the queue is eventually output, through the
\* engine or on the console, unless clear_queue or stop_speaking runs or
\* shutdown is requested; with or without an engine.
C30_QueuedIsOutput ==
    \A i \in 1..MaxSpeak :
        Queued(i) ~> (Output(i) \/ tts.caller = "clearing" \/ ShutdownRequested)
====
